---- MODULE Spec2Model ----
(***************************************************************************)
(* Smart-Silo Storage Referee: the economic decision core.                 *)
(*                                                                         *)
(*   RiskAssessmentEngine  src/src/services/RiskAssessmentEngine.ts        *)
(*   StorageStrategy       src/src/models/StorageStrategy.ts               *)
(*   DecisionContext       src/src/models/DecisionContext.ts               *)
(*                                                                         *)
(* Number representation.  The source computes in IEEE doubles; the model  *)
(* computes in integers with fixed scales:                                 *)
(*   - money amounts are whole rupees, cost rates are paise (1/100 rupee), *)
(*   - risk scores are thousandths, the weighted risk is in 1/10^4,        *)
(*   - spoilage risk and spoilage fractions are in 1/10^8 (FracScale),     *)
(*   - availability is in percent, confidence in hundredths,               *)
(*   - time is in whole hours.                                             *)
(* Divisions truncate; the truncation is the only place where the model's  *)
(* numbers differ from the source's.                                       *)
(***************************************************************************)
EXTENDS Integers, Sequences, FiniteSets, TLC

VARIABLES
    pc,                 \* position of the generateRecommendation invocation
    now,                \* Date.now(), hours
    farmerInputs,       \* DecisionContext.farmerInputs
    environmentalData,  \* DecisionContext.environmentalData
    marketData,         \* DecisionContext.marketData
    timestamp,          \* DecisionContext.timestamp
    parameters,         \* the invocation's DecisionParameters
    errors,             \* validation.errors of the invocation
    thrown,             \* methods whose evaluation raised and was caught
    suitability,        \* isSuitable's result per method, as seen by the loop
    storageOptions,     \* calculateAllStorageOptions' result
    recommendedOption,  \* selectBestOption's result
    alternativeOption,  \* selectAlternativeOption's result
    verdict,            \* the returned EconomicVerdict
    failure,            \* the message of the Error the invocation raised
    riskHistory,        \* per strategy, its RiskAssessmentEngine.riskHistory
    calls,              \* generateRecommendation invocations entered so far
    updates,            \* updateEnvironmentalData / updateMarketData calls so far
    lastOp,             \* the last operation called directly, its arguments and result
    assessed            \* per sensor, every reading assessSolarDryingRisk was given

vars == <<pc, now, farmerInputs, environmentalData, marketData, timestamp,
          parameters, errors, thrown, suitability, storageOptions,
          recommendedOption, alternativeOption, verdict, failure, riskHistory,
          calls, updates, lastOp, assessed>>

\* what an invocation of generateRecommendation leaves alone
callVars == <<updates, lastOp, assessed>>

(***************************************************************************)
(* Generic helpers                                                         *)
(***************************************************************************)
Min(a, b) == IF a <= b THEN a ELSE b

Max(a, b) == IF a >= b THEN a ELSE b

Range(s) == {s[i] : i \in 1..Len(s)}

RECURSIVE SeqMax(_)
\* Math.max(...xs) over a non-empty sequence of integers
SeqMax(xs) == IF Len(xs) = 1 THEN xs[1] ELSE Max(xs[1], SeqMax(Tail(xs)))

RECURSIVE SeqMin(_)
\* Math.min(...xs) over a non-empty sequence of integers
SeqMin(xs) == IF Len(xs) = 1 THEN xs[1] ELSE Min(xs[1], SeqMin(Tail(xs)))

RECURSIVE SeqSum(_)
SeqSum(xs) == IF xs = <<>> THEN 0 ELSE xs[1] + SeqSum(Tail(xs))

\* one sort entry: an element with the integer key it is ordered by
RECURSIVE InsertSorted(_, _)
\* e goes behind every entry whose key is not greater than its own
InsertSorted(sorted, e) ==
    IF sorted = <<>> THEN <<e>>
    ELSE IF sorted[1].key <= e.key
         THEN <<sorted[1]>> \o InsertSorted(Tail(sorted), e)
         ELSE <<e>> \o sorted

RECURSIVE SortedFrom(_, _)
SortedFrom(done, rest) ==
    IF rest = <<>> THEN done
    ELSE SortedFrom(InsertSorted(done, rest[1]), Tail(rest))

\* [...xs].sort(comparator), where the comparator is the difference of the
\* elements' keys and keys[i] is the key of xs[i]: ascending in the key, and
\* stable (Array.prototype.sort is stable since ES2019)
SortAscending(xs, keys) ==
    LET entries == [i \in 1..Len(xs) |-> [key |-> keys[i], item |-> xs[i]]]
        sorted == SortedFrom(<<>>, entries)
    IN  [i \in 1..Len(xs) |-> sorted[i].item]

(***************************************************************************)
(* Fixed-point arithmetic                                                  *)
(***************************************************************************)
\* spoilage fractions are counted in 1/10^8
FracScale == 10000 * 10000

\* the square root of FracScale
HalfScale == 100 * 100

\* a * b / FracScale, truncated, without leaving 32 bits
MulFrac(a, b) ==
    LET ah == a \div HalfScale
        al == a % HalfScale
        bh == b \div HalfScale
        bl == b % HalfScale
    IN  ah * bh + (ah * bl + al * bh + (al * bl) \div HalfScale) \div HalfScale

\* the part of a * b below one FracScale: a * b = MulFrac(a, b) * FracScale + it
ModFrac(a, b) ==
    LET ah == a \div HalfScale
        al == a % HalfScale
        bh == b \div HalfScale
        bl == b % HalfScale
    IN  (((ah * bl + al * bh) % HalfScale) * HalfScale + al * bl) % FracScale

RECURSIVE PowFrac(_, _)
\* Math.pow(x, n) for a fraction x in 1/FracScale and a whole n >= 0; the base
\* and the smaller power are bound to their values, each computed once
PowFrac(x, n) ==
    IF n = 0 THEN FracScale
    ELSE CHOOSE p \in {MulFrac(b, r) : b \in {x}, r \in {PowFrac(x, n - 1)}} : TRUE

(***************************************************************************)
(* Types (src/src/types/index.ts) and the crop catalog                     *)
(***************************************************************************)
COLD_STORAGE == "COLD_STORAGE"

SOLAR_DRYING == "SOLAR_DRYING"

\* the keys of STORAGE_STRATEGIES
StorageMethod == {COLD_STORAGE, SOLAR_DRYING}

\* a missing crop reference (null / undefined)
NoCrop == "none"

\* crops outside the catalog, new Crop({..., perishabilityScore: n}): the n-th
\* name is the crop whose perishabilityScore is n
CustomCrops ==
    <<"score-1", "score-2", "score-3", "score-4", "score-5",
      "score-6", "score-7", "score-8", "score-9", "score-10">>

\* CROP_DATABASE: perishabilityScore of the crops the model draws from
perishabilityScore(crop) ==
    CASE crop = "wheat"  -> 3
      [] crop = "chili"  -> 7
      [] crop = "tomato" -> 9
      [] OTHER -> CHOOSE n \in 1..Len(CustomCrops) : CustomCrops[n] = crop

(***************************************************************************)
(* RiskAssessmentEngine                                                    *)
(***************************************************************************)
DEFAULT_THRESHOLDS ==
    [temperature |-> [optimal  |-> [min |-> 15, max |-> 25],
                      warning  |-> [min |-> 10, max |-> 35],
                      critical |-> [min |-> 0,  max |-> 45]],
     humidity    |-> [optimal  |-> [min |-> 40, max |-> 60],
                      warning  |-> [min |-> 20, max |-> 80],
                      critical |-> [min |-> 0,  max |-> 100]]]

\* the engines of STORAGE_STRATEGIES are constructed without custom thresholds
thresholds == DEFAULT_THRESHOLDS

\* risk scores are counted in thousandths
ScoreScale == 10 * 100

\* the risk score without Math.min(1, ...)
BandRiskScore_Unclamped(value, band) ==
    IF value >= band.optimal.min /\ value <= band.optimal.max
    THEN 0
    ELSE LET distance == IF value < band.optimal.min
                         THEN band.optimal.min - value
                         ELSE value - band.optimal.max
             maxDistance == Max(band.optimal.min - band.critical.min,
                                band.critical.max - band.optimal.max)
         IN  (distance * ScoreScale) \div maxDistance

\* the shared body of getTemperatureRiskScore and getHumidityRiskScore
BandRiskScore(value, band) ==
    IF value >= band.optimal.min /\ value <= band.optimal.max
    THEN 0
    ELSE LET distance == IF value < band.optimal.min
                         THEN band.optimal.min - value
                         ELSE value - band.optimal.max
             maxDistance == Max(band.optimal.min - band.critical.min,
                                band.critical.max - band.optimal.max)
         IN  Min(ScoreScale, (distance * ScoreScale) \div maxDistance)

getTemperatureRiskScore(temperature) == BandRiskScore(temperature, thresholds.temperature)

getHumidityRiskScore(humidity) == BandRiskScore(humidity, thresholds.humidity)

\* the shared body of getTemperatureRisk and getHumidityRisk
BandRisk(value, band) ==
    IF value >= band.optimal.min /\ value <= band.optimal.max THEN "optimal"
    ELSE IF value >= band.warning.min /\ value <= band.warning.max THEN "warning"
    ELSE "critical"

getTemperatureRisk(temperature) == BandRisk(temperature, thresholds.temperature)

getHumidityRisk(humidity) == BandRisk(humidity, thresholds.humidity)

\* getRiskLevel testing for a warning before it tests for a critical value
getRiskLevel_WarningFirst(environment) ==
    LET tempRisk == getTemperatureRisk(environment.temperature)
        humidityRisk == getHumidityRisk(environment.humidity)
    IN  IF tempRisk = "warning" \/ humidityRisk = "warning" THEN "YELLOW"
        ELSE IF tempRisk = "critical" \/ humidityRisk = "critical" THEN "RED"
        ELSE "GREEN"

getRiskLevel(environment) ==
    LET tempRisk == getTemperatureRisk(environment.temperature)
        humidityRisk == getHumidityRisk(environment.humidity)
    IN  IF tempRisk = "critical" \/ humidityRisk = "critical" THEN "RED"
        ELSE IF tempRisk = "warning" \/ humidityRisk = "warning" THEN "YELLOW"
        ELSE "GREEN"

\* hours of exposure that count as the maximum
MaxExposureHours == 72

\* factors in thousandths
calculateRiskFactors(environment, crop, exposureHours) ==
    [temperature  |-> getTemperatureRiskScore(environment.temperature),
     humidity     |-> getHumidityRiskScore(environment.humidity),
     perishability |-> (perishabilityScore(crop) * ScoreScale) \div 10,
     timeExposure |-> Min((exposureHours * ScoreScale) \div MaxExposureHours, ScoreScale)]

\* weights in hundredths
RiskWeights == [temperature |-> 30, humidity |-> 30, perishability |-> 25, timeExposure |-> 15]

\* calculateSpoilageRisk without Math.min(1, ...)
calculateSpoilageRisk_Unclamped(factors) ==
    LET weightedRisk ==
            (factors.temperature * RiskWeights.temperature
             + factors.humidity * RiskWeights.humidity
             + factors.perishability * RiskWeights.perishability
             + factors.timeExposure * RiskWeights.timeExposure) \div 10
    IN  weightedRisk * (HalfScale + weightedRisk)

\* weightedRisk in 1/10^4 (at most 10^4); the result in 1/FracScale
calculateSpoilageRisk(factors) ==
    LET weightedRisk ==
            (factors.temperature * RiskWeights.temperature
             + factors.humidity * RiskWeights.humidity
             + factors.perishability * RiskWeights.perishability
             + factors.timeExposure * RiskWeights.timeExposure) \div 10
    IN  Min(FracScale, weightedRisk * (HalfScale + weightedRisk))

\* the multiplier in thousandths: 1.0 + ((tempScore + humidityScore) / 2) * 2.0
calculateEnvironmentalMultiplier(environment) ==
    LET tempScore == getTemperatureRiskScore(environment.temperature)
        humidityScore == getHumidityRiskScore(environment.humidity)
    IN  ScoreScale + ((tempScore + humidityScore) * 2) \div 2

\* the rolling history keeps this many readings per sensor
HistoryLimit == 100

\* updateRiskHistory with history.pop() for history.shift(): the entry just
\* pushed is the one removed
updateRiskHistory_EvictNewest(history, sensorId, data) ==
    CHOOSE after \in
        {LET old == IF sensorId \in DOMAIN h THEN h[sensorId] ELSE <<>>
             pushed == Append(old, data)
             kept == IF Len(pushed) > HistoryLimit
                     THEN SubSeq(pushed, 1, Len(pushed) - 1) ELSE pushed
         IN  [s \in DOMAIN h \cup {sensorId} |-> IF s = sensorId THEN kept ELSE h[s]] :
         h \in {history}} : TRUE

\* updateRiskHistory on one buffer for all sensors: the reading is pushed to
\* every history there is
updateRiskHistory_OneBuffer(history, sensorId, data) ==
    CHOOSE after \in
        {LET Pushed(old) == Append(old, data)
             Kept(old) == IF Len(Pushed(old)) > HistoryLimit
                          THEN Tail(Pushed(old)) ELSE Pushed(old)
         IN  [s \in DOMAIN h \cup {sensorId} |->
                 IF s \in DOMAIN h THEN Kept(h[s]) ELSE Kept(<<>>)] :
         h \in {history}} : TRUE

\* riskHistory after updateRiskHistory(sensorId, data); history: sensor -> Seq
\* (h is history, bound to its value)
updateRiskHistory(history, sensorId, data) ==
    CHOOSE after \in
        {LET old == IF sensorId \in DOMAIN h THEN h[sensorId] ELSE <<>>
             pushed == Append(old, data)
             kept == IF Len(pushed) > HistoryLimit THEN Tail(pushed) ELSE pushed
         IN  [s \in DOMAIN h \cup {sensorId} |-> IF s = sensorId THEN kept ELSE h[s]] :
         h \in {history}} : TRUE

\* the value assessSolarDryingRisk returns
assessSolarDryingRisk(environment, crop, exposureHours) ==
    LET riskFactors == calculateRiskFactors(environment, crop, exposureHours)
        spoilageRisk == calculateSpoilageRisk(riskFactors)
    IN  [solarDryingViability    |-> Max(0, FracScale - spoilageRisk),
         spoilageRisk            |-> spoilageRisk,
         environmentalMultiplier |-> calculateEnvironmentalMultiplier(environment)]

\* the engine's riskHistory after assessSolarDryingRisk(environment, ...)
assessSolarDryingRiskHistory(history, environment) ==
    updateRiskHistory(history, environment.sensorId, environment)

\* 0.1, the difference of the half means that makes a trend, in 1/2000
TrendThreshold == 2 * 100

\* getRiskTrend with >= 0.1 and <= -0.1 for > 0.1 and < -0.1
getRiskTrend_AtLeast(engineHistory, sensorId, hours, clock) ==
    LET history == IF sensorId \in DOMAIN engineHistory
                   THEN engineHistory[sensorId] ELSE <<>>
        cutoffTime == clock - hours
        Recent(d) == d.timestamp > cutoffTime
        recentData == SelectSeq(history, Recent)
        riskScores == [i \in 1..Len(recentData) |->
                          getTemperatureRiskScore(recentData[i].temperature)
                          + getHumidityRiskScore(recentData[i].humidity)]
        half == Len(riskScores) \div 2
        firstHalf == SubSeq(riskScores, 1, half)
        secondHalf == SubSeq(riskScores, half + 1, Len(riskScores))
        \* (secondAvg - firstAvg) * firstHalf.length * secondHalf.length
        difference == SeqSum(secondHalf) * Len(firstHalf)
                      - SeqSum(firstHalf) * Len(secondHalf)
        tenth == TrendThreshold * Len(firstHalf) * Len(secondHalf)
    IN  IF Len(recentData) < 2
        THEN [trend |-> "stable", averageRisk |-> 0, peakRisk |-> 0,
              dataPoints |-> Len(recentData)]
        ELSE [trend |-> IF difference >= tenth THEN "worsening"
                        ELSE IF difference <= 0 - tenth THEN "improving"
                        ELSE "stable",
              averageRisk |-> SeqSum(riskScores) \div Len(riskScores),
              peakRisk |-> SeqMax(riskScores),
              dataPoints |-> Len(recentData)]

\* getRiskTrend(sensorId, hours) at time clock (Date.now(), in hours) on an
\* engine with history engineHistory; a risk score (tempRisk + humidityRisk) / 2
\* is counted in 1/2000, as are averageRisk (truncated) and peakRisk
getRiskTrend(engineHistory, sensorId, hours, clock) ==
    LET history == IF sensorId \in DOMAIN engineHistory
                   THEN engineHistory[sensorId] ELSE <<>>
        cutoffTime == clock - hours
        Recent(d) == d.timestamp > cutoffTime
        recentData == SelectSeq(history, Recent)
        riskScores == [i \in 1..Len(recentData) |->
                          getTemperatureRiskScore(recentData[i].temperature)
                          + getHumidityRiskScore(recentData[i].humidity)]
        half == Len(riskScores) \div 2
        firstHalf == SubSeq(riskScores, 1, half)
        secondHalf == SubSeq(riskScores, half + 1, Len(riskScores))
        \* (secondAvg - firstAvg) * firstHalf.length * secondHalf.length
        difference == SeqSum(secondHalf) * Len(firstHalf)
                      - SeqSum(firstHalf) * Len(secondHalf)
        tenth == TrendThreshold * Len(firstHalf) * Len(secondHalf)
    IN  IF Len(recentData) < 2
        THEN [trend |-> "stable", averageRisk |-> 0, peakRisk |-> 0,
              dataPoints |-> Len(recentData)]
        ELSE [trend |-> IF difference > tenth THEN "worsening"
                        ELSE IF difference < 0 - tenth THEN "improving"
                        ELSE "stable",
              averageRisk |-> SeqSum(riskScores) \div Len(riskScores),
              peakRisk |-> SeqMax(riskScores),
              dataPoints |-> Len(recentData)]

\* exposureHours when the caller passes none
DefaultExposureHours == 24

\* the warnings of getDetailedRiskAnalysis, as tags
DetailedRiskWarnings(environment) ==
    (IF environment.temperature > thresholds.temperature.warning.max
     THEN <<"warning:temperature">> ELSE <<>>)
    \o (IF environment.humidity > thresholds.humidity.warning.max
        THEN <<"warning:humidity">> ELSE <<>>)

(***************************************************************************)
(* StorageStrategy                                                         *)
(***************************************************************************)
\* STORAGE_STRATEGIES: cost rates in paise, spoilageRate in 1/FracScale,
\* availabilityFactor in percent
STORAGE_STRATEGIES(method) ==
    IF method = COLD_STORAGE
    THEN [method |-> COLD_STORAGE,
          costs |-> [baseCost |-> 1500, logisticsCost |-> 200,
                     setupCost |-> 50000, maintenanceCost |-> 5000],
          spoilageRate |-> 100000,
          capacityLimit |-> 1000,
          availabilityFactor |-> 80]
    ELSE [method |-> SOLAR_DRYING,
          costs |-> [baseCost |-> 200, logisticsCost |-> 50,
                     setupCost |-> 10000, maintenanceCost |-> 500],
          spoilageRate |-> 5000000,
          capacityLimit |-> 500,
          availabilityFactor |-> 95]

\* getAllStorageStrategies(): Object.values keeps the insertion order of the keys
getAllStorageStrategies == <<COLD_STORAGE, SOLAR_DRYING>>

\* the spoilage rate estimateLosses uses for cold storage, 0.001 in 1/FracScale
ColdStorageSpoilageRate == 100 * 1000

\* the terms of calculateTotalCost with a setup cost charged per quintal
CostTerms_SetupPerQuintal(method, inputs, environment, storageDays) ==
    LET costs == STORAGE_STRATEGIES(method).costs
        baseStorageCost == costs.baseCost * inputs.cropVolume * storageDays
    IN  [baseStorageCost |-> baseStorageCost,
         logisticsCost |-> costs.logisticsCost * inputs.cropVolume * inputs.distanceFromHub,
         setupCost |-> costs.setupCost * inputs.cropVolume,
         maintenanceCost |-> costs.maintenanceCost * storageDays,
         environmentalAdjustment |->
            IF method = SOLAR_DRYING
            THEN LET riskAssessment ==
                         assessSolarDryingRisk(environment, inputs.cropType, storageDays * 24)
                 IN  (baseStorageCost \div 100) * riskAssessment.environmentalMultiplier
            ELSE 0]

\* the terms calculateTotalCost adds up: the four costs in paise, the
\* environmental adjustment (baseStorageCost * environmentalMultiplier * 0.1)
\* in 1/10^4 rupee; the cost rates are whole rupees, so baseStorageCost is
\* a whole number of rupees
CostTerms(method, inputs, environment, storageDays) ==
    LET costs == STORAGE_STRATEGIES(method).costs
        baseStorageCost == costs.baseCost * inputs.cropVolume * storageDays
    IN  [baseStorageCost |-> baseStorageCost,
         logisticsCost |-> costs.logisticsCost * inputs.cropVolume * inputs.distanceFromHub,
         setupCost |-> costs.setupCost,
         maintenanceCost |-> costs.maintenanceCost * storageDays,
         environmentalAdjustment |->
            IF method = SOLAR_DRYING
            THEN LET riskAssessment ==
                         assessSolarDryingRisk(environment, inputs.cropType, storageDays * 24)
                 IN  (baseStorageCost \div 100) * riskAssessment.environmentalMultiplier
            ELSE 0]

\* calculateTotalCost, in whole rupees
calculateTotalCost(method, inputs, environment, storageDays) ==
    LET terms == CostTerms(method, inputs, environment, storageDays)
    IN  (terms.baseStorageCost + terms.logisticsCost + terms.setupCost
         + terms.maintenanceCost + terms.environmentalAdjustment \div 100) \div 100

\* the strategy's riskHistory after calculateTotalCost
calculateTotalCostHistory(method, history, environment) ==
    IF method = SOLAR_DRYING
    THEN assessSolarDryingRiskHistory(history, environment)
    ELSE history

\* totalSpoilage of estimateLosses, in 1/FracScale
totalSpoilage(method, crop, environment, storageDays) ==
    LET spoilageRate ==
            IF method = SOLAR_DRYING
            THEN assessSolarDryingRisk(environment, crop, storageDays * 24).spoilageRisk
            ELSE IF method = COLD_STORAGE
            THEN ColdStorageSpoilageRate
            ELSE STORAGE_STRATEGIES(method).spoilageRate
        dailySpoilageRate == spoilageRate \div storageDays
    IN  FracScale - PowFrac(FracScale - dailySpoilageRate, storageDays)

\* estimateLosses compounding the configured spoilageRate for every method
estimateLosses_ConfiguredRate(method, crop, environment, volume, marketPrice, storageDays) ==
    LET dailySpoilageRate == STORAGE_STRATEGIES(method).spoilageRate \div storageDays
    IN  MulFrac(volume * marketPrice,
                FracScale - PowFrac(FracScale - dailySpoilageRate, storageDays))

\* estimateLosses, in whole rupees
estimateLosses(method, crop, environment, volume, marketPrice, storageDays) ==
    MulFrac(volume * marketPrice, totalSpoilage(method, crop, environment, storageDays))

\* what estimateLosses returns beyond the whole rupees, in 1/FracScale rupee
estimateLossesFraction(method, crop, environment, volume, marketPrice, storageDays) ==
    ModFrac(volume * marketPrice, totalSpoilage(method, crop, environment, storageDays))

\* the strategy's riskHistory after estimateLosses
estimateLossesHistory(method, history, environment) ==
    IF method = SOLAR_DRYING
    THEN assessSolarDryingRiskHistory(history, environment)
    ELSE history

\* calculateNetValue that leaves the estimated losses out
calculateNetValue_IgnoreLosses(method, inputs, environment, marketPrice, storageDays) ==
    LET grossValue == inputs.cropVolume * marketPrice
        totalCost == calculateTotalCost(method, inputs, environment, storageDays)
    IN  grossValue - totalCost

calculateNetValue(method, inputs, environment, marketPrice, storageDays) ==
    LET grossValue == inputs.cropVolume * marketPrice
        totalCost == calculateTotalCost(method, inputs, environment, storageDays)
        estimatedLosses == estimateLosses(method, inputs.cropType, environment,
                                          inputs.cropVolume, marketPrice, storageDays)
    IN  grossValue - totalCost - estimatedLosses

\* the strategy's riskHistory after calculateNetValue
calculateNetValueHistory(method, history, environment) ==
    estimateLossesHistory(method,
        calculateTotalCostHistory(method, history, environment), environment)

\* getRiskFactors: the texts as tags, in the order they are pushed
getRiskFactors(method, crop, environment, inputs) ==
    (IF method = SOLAR_DRYING
     THEN (IF environment.humidity > 70 THEN <<"solar:humidity">> ELSE <<>>)
          \o (IF environment.temperature > 35 THEN <<"solar:temperature">> ELSE <<>>)
          \o (IF perishabilityScore(crop) > 7 THEN <<"solar:perishable">> ELSE <<>>)
          \o DetailedRiskWarnings(environment)
     ELSE IF method = COLD_STORAGE
     THEN (IF inputs.distanceFromHub > 200 THEN <<"cold:distance">> ELSE <<>>)
          \o (IF inputs.cropVolume < 10 THEN <<"cold:volume">> ELSE <<>>)
     ELSE <<>>)
    \o (IF STORAGE_STRATEGIES(method).availabilityFactor < 80
        THEN <<"availability">> ELSE <<>>)

\* generateStorageOption: a fresh StorageOption
generateStorageOption(method, inputs, environment, marketPrice, storageDays) ==
    [method         |-> method,
     totalCost      |-> calculateTotalCost(method, inputs, environment, storageDays),
     expectedLosses |-> estimateLosses(method, inputs.cropType, environment,
                                       inputs.cropVolume, marketPrice, storageDays),
     netValue       |-> calculateNetValue(method, inputs, environment, marketPrice, storageDays),
     riskFactors    |-> getRiskFactors(method, inputs.cropType, environment, inputs),
     \* the array getRiskFactors has allocated: one per strategy and request; an
     \* object that holds this name holds a reference to that array
     riskFactorsArray |-> method]

\* generateStorageOption with calculateNetValue working on the cost and the
\* losses already computed: the engine assesses the reading twice
generateStorageOptionHistory_Reuse(method, history, environment) ==
    estimateLossesHistory(method,
        calculateTotalCostHistory(method, history, environment), environment)

\* the strategy's riskHistory after generateStorageOption
generateStorageOptionHistory(method, history, environment) ==
    calculateNetValueHistory(method,
        estimateLossesHistory(method,
            calculateTotalCostHistory(method, history, environment), environment),
        environment)

\* solar drying unsuitable above a spoilage risk of 0.95
MaxSolarSpoilageRisk_Lenient == 95 * 1000000

\* spoilage risk above which solar drying is unsuitable, 0.8 in 1/FracScale
MaxSolarSpoilageRisk == 8 * 10000000

\* the availability factor below which a method is not readily available
MinAvailabilityFactor == 50

\* isSuitable that returns at the first constraint it finds violated
isSuitableOf_FirstReasonOnly(p, inputs, environment) ==
    LET overCapacity == inputs.cropVolume > p.capacityLimit
        unavailable == p.availabilityFactor < MinAvailabilityFactor
        tooRisky ==
            /\ p.method = SOLAR_DRYING
            /\ assessSolarDryingRisk(environment, inputs.cropType,
                                     DefaultExposureHours).spoilageRisk > MaxSolarSpoilageRisk
    IN  [suitable |-> ~(overCapacity \/ unavailable \/ tooRisky),
         reasons  |-> IF overCapacity THEN <<"reason:capacity">>
                      ELSE IF unavailable THEN <<"reason:availability">>
                      ELSE IF tooRisky THEN <<"reason:risk">> ELSE <<>>]

\* isSuitable with a volume equal to the capacity limit counted as exceeding it
isSuitableOf_AtCapacity(p, inputs, environment) ==
    LET overCapacity == inputs.cropVolume >= p.capacityLimit
        unavailable == p.availabilityFactor < MinAvailabilityFactor
        tooRisky ==
            /\ p.method = SOLAR_DRYING
            /\ assessSolarDryingRisk(environment, inputs.cropType,
                                     DefaultExposureHours).spoilageRisk > MaxSolarSpoilageRisk
    IN  [suitable |-> ~(overCapacity \/ unavailable \/ tooRisky),
         reasons  |-> (IF overCapacity THEN <<"reason:capacity">> ELSE <<>>)
                      \o (IF unavailable THEN <<"reason:availability">> ELSE <<>>)
                      \o (IF tooRisky THEN <<"reason:risk">> ELSE <<>>)]

\* isSuitable of a strategy with parameters p: {suitable, reasons}, the
\* reasons as tags
isSuitableOf(p, inputs, environment) ==
    LET overCapacity == inputs.cropVolume > p.capacityLimit
        unavailable == p.availabilityFactor < MinAvailabilityFactor
        tooRisky ==
            /\ p.method = SOLAR_DRYING
            /\ assessSolarDryingRisk(environment, inputs.cropType,
                                     DefaultExposureHours).spoilageRisk > MaxSolarSpoilageRisk
    IN  [suitable |-> ~(overCapacity \/ unavailable \/ tooRisky),
         reasons  |-> (IF overCapacity THEN <<"reason:capacity">> ELSE <<>>)
                      \o (IF unavailable THEN <<"reason:availability">> ELSE <<>>)
                      \o (IF tooRisky THEN <<"reason:risk">> ELSE <<>>)]

\* isSuitable of the registry's strategy of a method
isSuitable(method, inputs, environment) ==
    isSuitableOf(STORAGE_STRATEGIES(method), inputs, environment)

\* the strategy's riskHistory after isSuitable
isSuitableHistory(method, history, environment) ==
    IF method = SOLAR_DRYING
    THEN assessSolarDryingRiskHistory(history, environment)
    ELSE history

(***************************************************************************)
(* DecisionContext: the pure parts                                         *)
(***************************************************************************)
\* environmental data older than this many hours fails validation
MaxEnvironmentalAgeHours == 24

\* market data older than this many hours (7 days) fails validation
MaxMarketAgeHours == 7 * 24

\* the errors array validateInputs builds: the messages as tags, in the order
\* they are pushed
ValidationErrors(inputs, environment, market, clock) ==
    (IF inputs.cropType = NoCrop THEN <<"crop">> ELSE <<>>)
    \o (IF inputs.distanceFromHub <= 0 \/ inputs.distanceFromHub > 1000
        THEN <<"distance">> ELSE <<>>)
    \o (IF inputs.cropVolume <= 0 \/ inputs.cropVolume > 10000
        THEN <<"volume">> ELSE <<>>)
    \o (IF environment.temperature < -10 \/ environment.temperature > 60
        THEN <<"temperature">> ELSE <<>>)
    \o (IF environment.humidity < 0 \/ environment.humidity > 100
        THEN <<"humidity">> ELSE <<>>)
    \o (IF market.currentPrice = 0 \/ market.currentPrice <= 0
        THEN <<"price">> ELSE <<>>)
    \o (IF clock - environment.timestamp > MaxEnvironmentalAgeHours
        THEN <<"environment-age">> ELSE <<>>)
    \o (IF clock - market.lastUpdated > MaxMarketAgeHours
        THEN <<"market-age">> ELSE <<>>)

\* validateInputs without the market freshness check
validateInputs_NoMarketAge(inputs, environment, market, clock) ==
    LET IsOther(e) == e # "market-age"
        errs == SelectSeq(ValidationErrors(inputs, environment, market, clock), IsOther)
    IN  [isValid |-> Len(errs) = 0, errors |-> errs]

\* validateInputs returning at the first violated check
validateInputs_FirstOnly(inputs, environment, market, clock) ==
    LET errs == ValidationErrors(inputs, environment, market, clock)
    IN  [isValid |-> Len(errs) = 0,
         errors |-> IF errs = <<>> THEN errs ELSE <<errs[1]>>]

validateInputs(inputs, environment, market, clock) ==
    LET errs == ValidationErrors(inputs, environment, market, clock)
    IN  [isValid |-> Len(errs) = 0, errors |-> errs]

\* EvaluateStrategy without the riskTolerance === 'high' override
EvaluateStrategy_NoOverride(method, acc, inputs, environment, market, params) ==
    LET suit == isSuitable(method, inputs, environment)
        h1 == isSuitableHistory(method, acc.history[method], environment)
        generated == generateStorageOption(method, inputs, environment,
                                           market.currentPrice, params.storageDays)
        h2 == IF suit.suitable
              THEN generateStorageOptionHistory(method, h1, environment) ELSE h1
    IN  [options |-> IF suit.suitable THEN Append(acc.options, generated) ELSE acc.options,
         suitability |-> Append(acc.suitability,
                                [method |-> method, suitable |-> suit.suitable,
                                 reasons |-> suit.reasons]),
         thrown |-> acc.thrown,
         history |-> [acc.history EXCEPT ![method] = h2]]

\* one iteration of calculateAllStorageOptions' loop, for a strategy whose
\* evaluation does not raise: acc is {options, suitability, thrown, history}
EvaluateStrategy(method, acc, inputs, environment, market, params) ==
    LET suit == isSuitable(method, inputs, environment)
        h1 == isSuitableHistory(method, acc.history[method], environment)
        taken == suit.suitable \/ params.riskTolerance = "high"
        generated == generateStorageOption(method, inputs, environment,
                                           market.currentPrice, params.storageDays)
        option == IF ~suit.suitable
                  THEN [generated EXCEPT !.riskFactors = @ \o suit.reasons]
                  ELSE generated
        h2 == IF taken THEN generateStorageOptionHistory(method, h1, environment) ELSE h1
    IN  [options |-> IF taken THEN Append(acc.options, option) ELSE acc.options,
         suitability |-> Append(acc.suitability,
                                [method |-> method, suitable |-> suit.suitable,
                                 reasons |-> suit.reasons]),
         thrown |-> acc.thrown,
         history |-> [acc.history EXCEPT ![method] = h2]]

RECURSIVE StorageOptionsLoop_AbortOnThrow(_, _, _, _, _, _, _)
\* the loop with the try around it instead of inside it: the first strategy
\* that raises ends the loop
StorageOptionsLoop_AbortOnThrow(i, acc, inputs, environment, market, params, raising) ==
    IF i > Len(getAllStorageStrategies) THEN acc
    ELSE LET method == getAllStorageStrategies[i]
         IN  IF method \in raising
             THEN [acc EXCEPT !.thrown = @ \cup {method}]
             ELSE StorageOptionsLoop_AbortOnThrow(i + 1,
                      EvaluateStrategy(method, acc, inputs, environment, market, params),
                      inputs, environment, market, params, raising)

RECURSIVE StorageOptionsLoop(_, _, _, _, _, _, _)
\* the for loop of calculateAllStorageOptions over strategies[i..]; raising is
\* the set of methods whose evaluation raises on entry, before it has any
\* effect: the catch block logs and the loop goes on with the next strategy
StorageOptionsLoop(i, acc, inputs, environment, market, params, raising) ==
    IF i > Len(getAllStorageStrategies) THEN acc
    ELSE LET method == getAllStorageStrategies[i]
             next == IF method \in raising
                     THEN [acc EXCEPT !.thrown = @ \cup {method}]
                     ELSE EvaluateStrategy(method, acc, inputs, environment, market, params)
         IN  CHOOSE r \in {StorageOptionsLoop(i + 1, n, inputs, environment, market,
                                                params, raising) : n \in {next}} : TRUE

\* calculateAllStorageOptions: the options, with what the loop saw and did
calculateAllStorageOptions(inputs, environment, market, params, history, raising) ==
    StorageOptionsLoop(1,
        [options |-> <<>>, suitability |-> <<>>, thrown |-> {}, history |-> history],
        inputs, environment, market, params, raising)

\* sort keys of (a, b) => b.netValue - a.netValue
ByProfit(options) == [i \in 1..Len(options) |-> 0 - options[i].netValue]

\* sort keys of (a, b) => a.riskFactors.length - b.riskFactors.length
ByRisk(options) == [i \in 1..Len(options) |-> Len(options[i].riskFactors)]

\* the most risk factors an option may have to count as low risk
LowRiskLimit == 2

IsLowRisk(option) == Len(option.riskFactors) <= LowRiskLimit

\* the score with the risk penalty added to the profit instead of taken off it
BalancedScore_PenaltyAdded(option, options) ==
    LET netValues == [i \in 1..Len(options) |-> options[i].netValue]
        maxNetValue == SeqMax(netValues)
        minNetValue == SeqMin(netValues)
        spread == maxNetValue > minNetValue
        dn == IF spread THEN maxNetValue - minNetValue ELSE 2
        nn == IF spread THEN option.netValue - minNetValue ELSE 1
        maxRiskFactors == SeqMax([i \in 1..Len(options) |-> Len(options[i].riskFactors)])
        dr == IF maxRiskFactors > 0 THEN maxRiskFactors ELSE 1
        nr == IF maxRiskFactors > 0 THEN Len(option.riskFactors) ELSE 0
    IN  10 * nn * dr + 3 * nr * dn

\* the score with the risk penalty weighted 1.3 instead of 0.3
BalancedScore_HeavyPenalty(option, options) ==
    LET netValues == [i \in 1..Len(options) |-> options[i].netValue]
        maxNetValue == SeqMax(netValues)
        minNetValue == SeqMin(netValues)
        spread == maxNetValue > minNetValue
        dn == IF spread THEN maxNetValue - minNetValue ELSE 2
        nn == IF spread THEN option.netValue - minNetValue ELSE 1
        maxRiskFactors == SeqMax([i \in 1..Len(options) |-> Len(options[i].riskFactors)])
        dr == IF maxRiskFactors > 0 THEN maxRiskFactors ELSE 1
        nr == IF maxRiskFactors > 0 THEN Len(option.riskFactors) ELSE 0
    IN  10 * nn * dr - 13 * nr * dn

\* selectBalancedOption's score of one option, times 10 * dn * dr, where dn and
\* dr are the denominators of normalizedProfit and riskPenalty
BalancedScore(option, options) ==
    LET netValues == [i \in 1..Len(options) |-> options[i].netValue]
        maxNetValue == SeqMax(netValues)
        minNetValue == SeqMin(netValues)
        spread == maxNetValue > minNetValue
        dn == IF spread THEN maxNetValue - minNetValue ELSE 2
        nn == IF spread THEN option.netValue - minNetValue ELSE 1
        maxRiskFactors == SeqMax([i \in 1..Len(options) |-> Len(options[i].riskFactors)])
        dr == IF maxRiskFactors > 0 THEN maxRiskFactors ELSE 1
        nr == IF maxRiskFactors > 0 THEN Len(option.riskFactors) ELSE 0
    IN  10 * nn * dr - 3 * nr * dn

RECURSIVE BalancedLoop(_, _, _)
\* the for loop of selectBalancedOption over options[i..]; best.scored is FALSE
\* while bestScore is -Infinity
BalancedLoop(i, best, options) ==
    IF i > Len(options) THEN best.option
    ELSE LET score == BalancedScore(options[i], options)
         IN  IF ~best.scored \/ score > best.score
             THEN BalancedLoop(i + 1, [option |-> options[i], score |-> score,
                                       scored |-> TRUE], options)
             ELSE BalancedLoop(i + 1, best, options)

\* selectBalancedOption going through the options from the last to the first:
\* of equal scores the one evaluated last wins
selectBalancedOption_LastOnTie(options) ==
    LET reversed == [i \in 1..Len(options) |-> options[Len(options) + 1 - i]]
    IN  BalancedLoop(1, [option |-> reversed[1], score |-> 0, scored |-> FALSE],
                     reversed)

selectBalancedOption(options) ==
    BalancedLoop(1, [option |-> options[1], score |-> 0, scored |-> FALSE], options)

\* selectBestOption that never looks at prioritizeProfit
selectBestOption_IgnoreProfitFlag(options, params) ==
    LET sortedByProfit == SortAscending(options, ByProfit(options))
        sortedByRisk == SortAscending(options, ByRisk(options))
    IN  IF params.riskTolerance = "low"
        THEN LET lowRiskOptions == SelectSeq(sortedByRisk, IsLowRisk)
             IN  IF Len(lowRiskOptions) > 0 THEN lowRiskOptions[1] ELSE sortedByRisk[1]
        ELSE IF params.riskTolerance = "high" THEN sortedByProfit[1]
        ELSE selectBalancedOption(options)

\* selectBestOption whose 'low' branch filters the options sorted by profit
selectBestOption_LowByProfit(options, params) ==
    LET sortedByProfit == SortAscending(options, ByProfit(options))
        sortedByRisk == SortAscending(options, ByRisk(options))
    IN  IF params.prioritizeProfit THEN sortedByProfit[1]
        ELSE IF params.riskTolerance = "low"
        THEN LET lowRiskOptions == SelectSeq(sortedByProfit, IsLowRisk)
             IN  IF Len(lowRiskOptions) > 0 THEN lowRiskOptions[1] ELSE sortedByRisk[1]
        ELSE IF params.riskTolerance = "high" THEN sortedByProfit[1]
        ELSE selectBalancedOption(options)

\* selectBestOption for a non-empty list of options
selectBestOption(options, params) ==
    LET sortedByProfit == SortAscending(options, ByProfit(options))
        sortedByRisk == SortAscending(options, ByRisk(options))
    IN  IF params.prioritizeProfit THEN sortedByProfit[1]
        ELSE IF params.riskTolerance = "low"
        THEN LET lowRiskOptions == SelectSeq(sortedByRisk, IsLowRisk)
             IN  IF Len(lowRiskOptions) > 0 THEN lowRiskOptions[1] ELSE sortedByRisk[1]
        ELSE IF params.riskTolerance = "high" THEN sortedByProfit[1]
        ELSE selectBalancedOption(options)

\* selectAlternativeOption whose fallback returns the recommended option itself
selectAlternativeOption_NoFlip(options, recommended) ==
    LET OtherMethod(opt) == opt.method # recommended.method
        alternatives == SelectSeq(options, OtherMethod)
    IN  IF Len(alternatives) = 0
        THEN recommended
        ELSE SortAscending(alternatives, ByProfit(alternatives))[1]

selectAlternativeOption(options, recommended) ==
    LET OtherMethod(opt) == opt.method # recommended.method
        alternatives == SelectSeq(options, OtherMethod)
    IN  IF Len(alternatives) = 0
        THEN [recommended EXCEPT !.method = IF recommended.method = COLD_STORAGE
                                            THEN SOLAR_DRYING ELSE COLD_STORAGE]
        ELSE SortAscending(alternatives, ByProfit(alternatives))[1]

\* generateReasoning: the sentences as tags, in the order they are pushed
generateReasoning_AlwaysBalance(recommended, alternative, inputs, environment) ==
    LET profitDifference == recommended.netValue - alternative.netValue
        reasons ==
            (IF environment.humidity > 70 /\ recommended.method = COLD_STORAGE
             THEN <<"humidity">> ELSE <<>>)
            \o (IF environment.temperature > 35 /\ recommended.method = COLD_STORAGE
                THEN <<"temperature">> ELSE <<>>)
            \o (IF profitDifference > 1000 THEN <<"profit">> ELSE <<>>)
            \o (IF inputs.distanceFromHub > 100 /\ recommended.method = SOLAR_DRYING
                THEN <<"distance">> ELSE <<>>)
            \o (IF perishabilityScore(inputs.cropType) > 7
                   /\ recommended.method = COLD_STORAGE
                THEN <<"perishability">> ELSE <<>>)
            \o (IF Len(recommended.riskFactors) < Len(alternative.riskFactors)
                THEN <<"risk">> ELSE <<>>)
    IN  reasons \o <<"balance">>

generateReasoning(recommended, alternative, inputs, environment) ==
    LET profitDifference == recommended.netValue - alternative.netValue
        reasons ==
            (IF environment.humidity > 70 /\ recommended.method = COLD_STORAGE
             THEN <<"humidity">> ELSE <<>>)
            \o (IF environment.temperature > 35 /\ recommended.method = COLD_STORAGE
                THEN <<"temperature">> ELSE <<>>)
            \o (IF profitDifference > 1000 THEN <<"profit">> ELSE <<>>)
            \o (IF inputs.distanceFromHub > 100 /\ recommended.method = SOLAR_DRYING
                THEN <<"distance">> ELSE <<>>)
            \o (IF perishabilityScore(inputs.cropType) > 7
                   /\ recommended.method = COLD_STORAGE
                THEN <<"perishability">> ELSE <<>>)
            \o (IF Len(recommended.riskFactors) < Len(alternative.riskFactors)
                THEN <<"risk">> ELSE <<>>)
    IN  IF Len(reasons) = 0 THEN <<"balance">> ELSE reasons

\* environmental data older than this many hours lowers the confidence
StaleConfidenceHours == 6

\* Math.round(100 * (num / den)) for num >= 0 and den > 0: halves round up
RoundRatio(num, den) == (2 * num + den) \div (2 * den)

\* calculateConfidenceLevel applying the data-age reduction to the 0.6 too
calculateConfidenceLevel_AgedFloor(options, environment, clock) ==
    LET dataAge == clock - environment.timestamp
        ageFactor == IF dataAge > StaleConfidenceHours THEN 9 ELSE 10
    IN  IF Len(options) < 2 THEN RoundRatio(6 * ageFactor, 1)
        ELSE LET sortedByProfit == SortAscending(options, ByProfit(options))
                 best == sortedByProfit[1]
                 secondBest == sortedByProfit[2]
                 profitMargin == best.netValue - secondBest.netValue
                 marginNum == IF best.netValue > 0 THEN profitMargin ELSE 0
                 marginDen == IF best.netValue > 0 THEN best.netValue ELSE 1
                 capped == 5 * marginNum >= 2 * marginDen
                 baseNum == IF capped THEN 9 ELSE marginDen + 2 * marginNum
                 baseDen == IF capped THEN 10 ELSE 2 * marginDen
                 avgTimesLen ==
                     SeqSum([i \in 1..Len(options) |-> Len(options[i].riskFactors)])
                 riskFactor == IF avgTimesLen > 3 * Len(options) THEN 8 ELSE 10
             IN  RoundRatio(baseNum * ageFactor * riskFactor, baseDen)

\* calculateConfidenceLevel comparing the data age with 24 hours instead of 6
calculateConfidenceLevel_LateAge(options, environment, clock) ==
    IF Len(options) < 2 THEN 60
    ELSE LET sortedByProfit == SortAscending(options, ByProfit(options))
             best == sortedByProfit[1]
             secondBest == sortedByProfit[2]
             profitMargin == best.netValue - secondBest.netValue
             marginNum == IF best.netValue > 0 THEN profitMargin ELSE 0
             marginDen == IF best.netValue > 0 THEN best.netValue ELSE 1
             capped == 5 * marginNum >= 2 * marginDen
             baseNum == IF capped THEN 9 ELSE marginDen + 2 * marginNum
             baseDen == IF capped THEN 10 ELSE 2 * marginDen
             dataAge == clock - environment.timestamp
             ageFactor == IF dataAge > MaxEnvironmentalAgeHours THEN 9 ELSE 10
             avgTimesLen == SeqSum([i \in 1..Len(options) |-> Len(options[i].riskFactors)])
             riskFactor == IF avgTimesLen > 3 * Len(options) THEN 8 ELSE 10
         IN  RoundRatio(baseNum * ageFactor * riskFactor, baseDen)

\* calculateConfidenceLevel, in hundredths
calculateConfidenceLevel(options, environment, clock) ==
    IF Len(options) < 2 THEN 60
    ELSE LET sortedByProfit == SortAscending(options, ByProfit(options))
             best == sortedByProfit[1]
             secondBest == sortedByProfit[2]
             profitMargin == best.netValue - secondBest.netValue
             \* relativeMargin = marginNum / marginDen
             marginNum == IF best.netValue > 0 THEN profitMargin ELSE 0
             marginDen == IF best.netValue > 0 THEN best.netValue ELSE 1
             \* Math.min(0.9, 0.5 + relativeMargin) = baseNum / baseDen
             capped == 5 * marginNum >= 2 * marginDen
             baseNum == IF capped THEN 9 ELSE marginDen + 2 * marginNum
             baseDen == IF capped THEN 10 ELSE 2 * marginDen
             dataAge == clock - environment.timestamp
             ageFactor == IF dataAge > StaleConfidenceHours THEN 9 ELSE 10
             avgTimesLen == SeqSum([i \in 1..Len(options) |-> Len(options[i].riskFactors)])
             riskFactor == IF avgTimesLen > 3 * Len(options) THEN 8 ELSE 10
         IN  \* confidence * 100 = baseNum * ageFactor * riskFactor / baseDen
             RoundRatio(baseNum * ageFactor * riskFactor, baseDen)

\* calculatePotentialSavings without the floor at 0
calculatePotentialSavings_NoFloor(recommended, alternative) ==
    recommended.netValue - alternative.netValue

calculatePotentialSavings(recommended, alternative) ==
    Max(0, recommended.netValue - alternative.netValue)

getDefaultParameters ==
    [storageDays |-> 30, riskTolerance |-> "medium", prioritizeProfit |-> TRUE]

(***************************************************************************)
(* The inputs the model draws from                                         *)
(***************************************************************************)
\* the clock advances at most this many hours between construction and call
MaxClock == 1

SensorIds == {"sensor-1"}

\* in-range inputs: both crops' perishability classes, both sides of every
\* threshold the strategies and the reasoning test, volumes around both
\* capacity limits, a reading one tick from the 6 hour confidence threshold
NominalContexts ==
    {[inputs |-> [cropType |-> c, distanceFromHub |-> d, cropVolume |-> v],
      environment |-> [temperature |-> t, humidity |-> h, timestamp |-> e, sensorId |-> s],
      market |-> [currentPrice |-> p, lastUpdated |-> -1]] :
        c \in {"wheat", "tomato"}, d \in {30, 250}, v \in {5, 50, 600, 1200},
        t \in {22, 38}, h \in {50, 75, 85}, p \in {500, 1500, 2500},
        e \in {-6}, s \in SensorIds}

\* every combination of one in-range value and the out-of-range values of
\* each validated field; the data ages sit on the limits, one tick from stale
BoundaryContexts ==
    {[inputs |-> [cropType |-> c, distanceFromHub |-> d, cropVolume |-> v],
      environment |-> [temperature |-> t, humidity |-> h, timestamp |-> e, sensorId |-> s],
      market |-> [currentPrice |-> p, lastUpdated |-> m]] :
        c \in {NoCrop, "wheat"}, d \in {0, 30, 1001}, v \in {0, 50, 10001},
        t \in {-11, 22, 61}, h \in {-1, 50, 101}, p \in {0, 2500},
        e \in {-1, -24}, m \in {-1, -168}, s \in SensorIds}

Contexts == NominalContexts \cup BoundaryContexts

DecisionParameterValues ==
    [storageDays : {30}, riskTolerance : {"low", "medium", "high"},
     prioritizeProfit : BOOLEAN]

(***************************************************************************)
(* State                                                                   *)
(***************************************************************************)
NoParameters == [storageDays |-> 0, riskTolerance |-> "none", prioritizeProfit |-> FALSE]

NoOption ==
    [method |-> "none", totalCost |-> 0, expectedLosses |-> 0, netValue |-> 0,
     riskFactors |-> <<>>, riskFactorsArray |-> "none"]

NoVerdict ==
    [recommendedOption |-> NoOption, alternativeOption |-> NoOption,
     reasoning |-> <<>>, confidenceLevel |-> 0, potentialSavings |-> 0]

\* nothing has been called directly yet
NoOp == [name |-> "none"]

\* new DecisionContext(farmerInputs, environmentalData, marketData), with the
\* module-level STORAGE_STRATEGIES freshly constructed
Init ==
    /\ pc = "idle"
    /\ now = 0
    /\ \E ctx \in Contexts :
          /\ farmerInputs = ctx.inputs
          /\ environmentalData = ctx.environment
          /\ marketData = ctx.market
    /\ timestamp = now
    /\ parameters = NoParameters
    /\ errors = <<>>
    /\ thrown = {}
    /\ suitability = <<>>
    /\ storageOptions = <<>>
    /\ recommendedOption = NoOption
    /\ alternativeOption = NoOption
    /\ verdict = NoVerdict
    /\ failure = "none"
    /\ riskHistory = [m \in StorageMethod |-> <<>>]
    /\ calls = 0
    /\ updates = 0
    /\ lastOp = NoOp
    /\ assessed = <<>>

\* time passes before the context is used
Tick ==
    /\ pc = "idle"
    /\ now < MaxClock
    /\ now' = now + 1
    /\ UNCHANGED <<pc, farmerInputs, environmentalData, marketData, timestamp,
                   parameters, errors, thrown, suitability, storageOptions,
                   recommendedOption, alternativeOption, verdict, failure, riskHistory,
                   calls>>
    /\ UNCHANGED callVars

\* generateRecommendation(params) is entered
GenerateRecommendation(params) ==
    /\ pc = "idle"
    /\ pc' = "Validating"
    /\ parameters' = params
    /\ calls' = calls + 1
    /\ UNCHANGED <<now, farmerInputs, environmentalData, marketData, timestamp,
                   errors, thrown, suitability, storageOptions, recommendedOption,
                   alternativeOption, verdict, failure, riskHistory>>
    /\ UNCHANGED callVars

\* const validation = this.validateInputs(); if (!validation.isValid) throw
Validate_AssessFirst ==
    /\ pc = "Validating"
    /\ LET validation == validateInputs(farmerInputs, environmentalData, marketData, now)
       IN  /\ errors' = validation.errors
           /\ IF ~validation.isValid
              THEN /\ pc' = "Rejected"
                   /\ failure' = "Invalid inputs"
              ELSE /\ pc' = "Evaluating"
                   /\ UNCHANGED failure
    /\ riskHistory' = [riskHistory EXCEPT
                          ![SOLAR_DRYING] =
                              assessSolarDryingRiskHistory(@, environmentalData)]
    /\ UNCHANGED <<now, farmerInputs, environmentalData, marketData, timestamp,
                   parameters, thrown, suitability, storageOptions, recommendedOption,
                   alternativeOption, verdict, calls>>
    /\ UNCHANGED callVars

\* const validation = this.validateInputs(); if (!validation.isValid) throw
Validate ==
    /\ pc = "Validating"
    /\ LET validation == validateInputs(farmerInputs, environmentalData, marketData, now)
       IN  /\ errors' = validation.errors
           /\ IF ~validation.isValid
              THEN /\ pc' = "Rejected"
                   /\ failure' = "Invalid inputs"
              ELSE /\ pc' = "Evaluating"
                   /\ UNCHANGED failure
    /\ UNCHANGED <<now, farmerInputs, environmentalData, marketData, timestamp,
                   parameters, thrown, suitability, storageOptions, recommendedOption,
                   alternativeOption, verdict, riskHistory, calls>>
    /\ UNCHANGED callVars

\* const storageOptions = this.calculateAllStorageOptions(parameters)
Evaluate(raising) ==
    /\ pc = "Evaluating"
    /\ \E result \in {calculateAllStorageOptions(farmerInputs, environmentalData,
                         marketData, parameters, riskHistory, raising)} :
           /\ storageOptions' = result.options
           /\ suitability' = result.suitability
           /\ thrown' = result.thrown
           /\ riskHistory' = result.history
    /\ pc' = "Selecting"
    /\ UNCHANGED <<now, farmerInputs, environmentalData, marketData, timestamp,
                   parameters, errors, recommendedOption, alternativeOption, verdict,
                   failure, calls>>
    /\ UNCHANGED callVars

\* Select reporting an empty option list as a validation failure
Select_RejectOnEmpty ==
    /\ pc = "Selecting"
    /\ IF Len(storageOptions) = 0
       THEN /\ pc' = "Rejected"
            /\ failure' = "Invalid inputs"
            /\ UNCHANGED <<recommendedOption, alternativeOption>>
       ELSE /\ LET recommended == selectBestOption(storageOptions, parameters)
               IN  /\ recommendedOption' = recommended
                   /\ alternativeOption' =
                          selectAlternativeOption(storageOptions, recommended)
            /\ pc' = "Explaining"
            /\ UNCHANGED failure
    /\ UNCHANGED <<now, farmerInputs, environmentalData, marketData, timestamp,
                   parameters, errors, thrown, suitability, storageOptions, verdict,
                   riskHistory, calls>>
    /\ UNCHANGED callVars

\* selectBestOption and selectAlternativeOption
Select ==
    /\ pc = "Selecting"
    /\ IF Len(storageOptions) = 0
       THEN /\ pc' = "Failed"
            /\ failure' = "No suitable storage options available"
            /\ UNCHANGED <<recommendedOption, alternativeOption>>
       ELSE /\ LET recommended == selectBestOption(storageOptions, parameters)
               IN  /\ recommendedOption' = recommended
                   /\ alternativeOption' =
                          selectAlternativeOption(storageOptions, recommended)
            /\ pc' = "Explaining"
            /\ UNCHANGED failure
    /\ UNCHANGED <<now, farmerInputs, environmentalData, marketData, timestamp,
                   parameters, errors, thrown, suitability, storageOptions, verdict,
                   riskHistory, calls>>
    /\ UNCHANGED callVars

\* generateReasoning, calculateConfidenceLevel, calculatePotentialSavings, return
Explain ==
    /\ pc = "Explaining"
    /\ verdict' =
          [recommendedOption |-> recommendedOption,
           alternativeOption |-> alternativeOption,
           reasoning |-> generateReasoning(recommendedOption, alternativeOption,
                                           farmerInputs, environmentalData),
           confidenceLevel |-> calculateConfidenceLevel(storageOptions,
                                                        environmentalData, now),
           potentialSavings |-> calculatePotentialSavings(recommendedOption,
                                                          alternativeOption)]
    /\ pc' = "Done"
    /\ UNCHANGED <<now, farmerInputs, environmentalData, marketData, timestamp,
                   parameters, errors, thrown, suitability, storageOptions,
                   recommendedOption, alternativeOption, failure, riskHistory, calls>>
    /\ UNCHANGED callVars

Next ==
    \/ Tick
    \/ \E params \in DecisionParameterValues : GenerateRecommendation(params)
    \/ Validate
    \/ \E raising \in SUBSET StorageMethod : Evaluate(raising)
    \/ Select
    \/ Explain

Spec == Init /\ [][Next]_vars

\* the contexts the fair specification starts from: a missing crop, a volume
\* inside both capacity limits and one above both, a dry and a humid reading
FairContexts ==
    {ctx \in Contexts :
        /\ ctx.inputs.cropType \in {NoCrop, "wheat"}
        /\ ctx.inputs.distanceFromHub = 30
        /\ ctx.inputs.cropVolume \in {50, 1200}
        /\ ctx.environment.temperature = 22
        /\ ctx.environment.humidity \in {50, 85}
        /\ ctx.environment.timestamp \in {-6, -24}
        /\ ctx.market.currentPrice = 2500
        /\ ctx.market.lastUpdated = -1}

FairInit ==
    /\ Init
    /\ [inputs |-> farmerInputs, environment |-> environmentalData,
        market |-> marketData] \in FairContexts

\* generateRecommendation is synchronous: once entered, each of its statements
\* is executed, up to the return or the throw
FairSpec ==
    /\ FairInit
    /\ [][Next]_vars
    /\ WF_vars(Validate)
    /\ WF_vars(\E raising \in SUBSET StorageMethod : Evaluate(raising))
    /\ WF_vars(Select)
    /\ WF_vars(Explain)

(***************************************************************************)
(* The risk engine called directly                                         *)
(***************************************************************************)
\* what a direct call of the engine leaves alone
contextVars == <<pc, now, farmerInputs, environmentalData, marketData, timestamp,
                 parameters, errors, thrown, suitability, storageOptions,
                 recommendedOption, alternativeOption, verdict, failure, calls,
                 updates>>

\* the context that stands by while the engine is called directly
IdleContext ==
    [inputs |-> [cropType |-> "wheat", distanceFromHub |-> 30, cropVolume |-> 50],
     environment |-> [temperature |-> 22, humidity |-> 50, timestamp |-> -6,
                      sensorId |-> "sensor-1"],
     market |-> [currentPrice |-> 2500, lastUpdated |-> -1]]

EngineInit ==
    /\ Init
    /\ [inputs |-> farmerInputs, environment |-> environmentalData,
        market |-> marketData] = IdleContext

\* every reading given to assessSolarDryingRisk, per sensor, in arrival order
LogReading(log, environment) ==
    LET s == environment.sensorId
        old == IF s \in DOMAIN log THEN log[s] ELSE <<>>
    IN  [t \in DOMAIN log \cup {s} |-> IF t = s THEN Append(old, environment) ELSE log[t]]

\* riskEngine.assessSolarDryingRisk(environment, crop, exposureHours) on the
\* engine of the Solar Drying strategy
AssessSolarDryingRisk(environment, crop, exposureHours) ==
    /\ pc = "idle"
    /\ riskHistory' = [riskHistory EXCEPT
                          ![SOLAR_DRYING] = assessSolarDryingRiskHistory(@, environment)]
    /\ assessed' = LogReading(assessed, environment)
    /\ lastOp' = [name |-> "assessSolarDryingRisk",
                  environment |-> environment, crop |-> crop,
                  exposureHours |-> exposureHours,
                  result |-> assessSolarDryingRisk(environment, crop, exposureHours)]
    /\ UNCHANGED contextVars

\* a sensor may report this many readings
MaxReadings == 101

EngineSensorIds == {"sensor-1", "sensor-2"}

\* the n-th reading a sensor reports, one reading per hour
NthReading(sensorId, n) ==
    [temperature |-> 12 + 3 * (n % 9), humidity |-> 35 + 10 * (n % 6),
     timestamp |-> n, sensorId |-> sensorId]

\* the next reading of a sensor is assessed
AssessNextReading(sensorId) ==
    LET n == IF sensorId \in DOMAIN assessed THEN Len(assessed[sensorId]) ELSE 0
    IN  /\ n < MaxReadings
        /\ AssessSolarDryingRisk(NthReading(sensorId, n + 1), "wheat", DefaultExposureHours)

HistoryNext == \E sensorId \in EngineSensorIds : AssessNextReading(sensorId)

HistorySpec == EngineInit /\ [][HistoryNext]_vars

\* this many assessments are made on arbitrary readings
MaxAssessments == 1

\* readings that pass validation: the ends of the valid ranges, the bounds of
\* the bands and values between them
ValidReadings ==
    {[temperature |-> t, humidity |-> h, timestamp |-> 0, sensorId |-> "sensor-1"] :
        t \in {-10, 0, 12, 15, 25, 30, 45, 60}, h \in {0, 20, 40, 60, 70, 100}}

\* exposure times: none, the default, the cap, and a 30 day storage period
ExposureValues == {0, DefaultExposureHours, MaxExposureHours, 30 * 24}

\* the number of assessments made so far
Assessments ==
    IF "sensor-1" \in DOMAIN assessed THEN Len(assessed["sensor-1"]) ELSE 0

\* assessSolarDryingRisk on any valid reading, any crop and any exposure
AssessAnyReading ==
    /\ Assessments < MaxAssessments
    /\ \E environment \in ValidReadings, n \in 1..Len(CustomCrops),
          exposureHours \in ExposureValues :
            AssessSolarDryingRisk(environment, CustomCrops[n], exposureHours)

AssessSpec == EngineInit /\ [][AssessAnyReading]_vars

\* temperatures from below the critical band to above it
TemperatureValues == -15..65

\* humidities from below 0 % to above 100 %
HumidityValues == -5..105

\* getTemperatureRiskScore on two temperatures
GetTemperatureRiskScores(x, y) ==
    /\ pc = "idle"
    /\ lastOp = NoOp
    /\ lastOp' = [name |-> "getTemperatureRiskScore", values |-> <<x, y>>,
                  result |-> <<getTemperatureRiskScore(x), getTemperatureRiskScore(y)>>]
    /\ UNCHANGED <<contextVars, riskHistory, assessed>>

\* getHumidityRiskScore on two humidities
GetHumidityRiskScores(x, y) ==
    /\ pc = "idle"
    /\ lastOp = NoOp
    /\ lastOp' = [name |-> "getHumidityRiskScore", values |-> <<x, y>>,
                  result |-> <<getHumidityRiskScore(x), getHumidityRiskScore(y)>>]
    /\ UNCHANGED <<contextVars, riskHistory, assessed>>

\* readings with the riskLevel field their producer has set: values on both
\* sides of every bound of the optimal and the warning bands
LabelledReadings ==
    {[temperature |-> t, humidity |-> h, timestamp |-> 0, sensorId |-> "sensor-1",
      riskLevel |-> l] :
        t \in {-5, 9, 10, 14, 15, 25, 26, 35, 36, 50},
        h \in {-1, 19, 20, 39, 40, 60, 61, 80, 81, 101},
        l \in {"GREEN", "YELLOW", "RED"}}

\* riskEngine.getRiskLevel(environment)
GetRiskLevel(environment) ==
    /\ pc = "idle"
    /\ lastOp = NoOp
    /\ lastOp' = [name |-> "getRiskLevel", environment |-> environment,
                  result |-> getRiskLevel(environment)]
    /\ UNCHANGED <<contextVars, riskHistory, assessed>>

\* the scores and levels are functions of their arguments: one call is made
BandNext ==
    \/ \E x \in TemperatureValues, y \in TemperatureValues : GetTemperatureRiskScores(x, y)
    \/ \E x \in HumidityValues, y \in HumidityValues : GetHumidityRiskScores(x, y)
    \/ \E environment \in LabelledReadings : GetRiskLevel(environment)

BandSpec == EngineInit /\ [][BandNext]_vars

\* the inputs whose costs and losses are compared across volumes
ScalingInputs ==
    [cropType : {"wheat", "tomato"}, distanceFromHub : {0, 30}, cropVolume : {1, 50, 400}]

ScalingReadings ==
    {[temperature |-> t, humidity |-> h, timestamp |-> 0, sensorId |-> "sensor-1"] :
        t \in {22, 30, 40}, h \in {50, 85}}

\* the factors k the volume is multiplied by
VolumeFactors == 1..3

\* storage periods: a week and the default month
StoragePeriods == {7, 30}

\* what calculateTotalCost adds up and what estimateLosses returns
CostsAndLosses(method, inputs, environment, marketPrice, storageDays) ==
    [terms |-> CostTerms(method, inputs, environment, storageDays),
     losses |-> estimateLosses(method, inputs.cropType, environment,
                               inputs.cropVolume, marketPrice, storageDays),
     lossesFraction |-> estimateLossesFraction(method, inputs.cropType, environment,
                                               inputs.cropVolume, marketPrice, storageDays)]

\* calculateTotalCost and estimateLosses of one strategy, on inputs and on the
\* same inputs with k times the volume
ScaleVolume(method, inputs, environment, marketPrice, storageDays, k) ==
    /\ pc = "idle"
    /\ lastOp = NoOp
    /\ riskHistory' =
          [riskHistory EXCEPT ![method] =
              estimateLossesHistory(method,
                  calculateTotalCostHistory(method,
                      estimateLossesHistory(method,
                          calculateTotalCostHistory(method, @, environment),
                          environment),
                      environment),
                  environment)]
    /\ lastOp' = [name |-> "scaleVolume", method |-> method, inputs |-> inputs,
                  environment |-> environment, k |-> k,
                  result |-> CostsAndLosses(method, inputs, environment,
                                            marketPrice, storageDays),
                  scaled |-> CostsAndLosses(method,
                                            [inputs EXCEPT !.cropVolume = k * @],
                                            environment, marketPrice, storageDays)]
    /\ UNCHANGED <<contextVars, assessed>>

ScaleNext ==
    \E method \in StorageMethod, inputs \in ScalingInputs,
       environment \in ScalingReadings, storageDays \in StoragePeriods,
       k \in VolumeFactors :
        ScaleVolume(method, inputs, environment, 2500, storageDays, k)

ScaleSpec == EngineInit /\ [][ScaleNext]_vars

\* a sensor reports this many readings before its trend is asked for
MaxTrendReadings == 4

\* readings of sensor-1 with scores 0, 0.1 and 1, taken 2, 24 and 30 hours ago
TrendReadings ==
    {[temperature |-> t, humidity |-> 50, timestamp |-> ts, sensorId |-> "sensor-1"] :
        t \in {22, 29, 45}, ts \in {-30, -24, -2}}

\* the windows asked for: the default day and two days
TrendWindows == {24, 48}

\* one more reading of sensor-1 is assessed
AssessTrendReading(environment) ==
    /\ Assessments < MaxTrendReadings
    /\ AssessSolarDryingRisk(environment, "wheat", DefaultExposureHours)

\* riskEngine.getRiskTrend(sensorId, hours)
GetRiskTrend(sensorId, hours) ==
    /\ pc = "idle"
    /\ lastOp' = [name |-> "getRiskTrend", sensorId |-> sensorId, hours |-> hours,
                  result |-> getRiskTrend(riskHistory[SOLAR_DRYING], sensorId, hours, now)]
    /\ UNCHANGED <<contextVars, riskHistory, assessed>>

TrendNext ==
    \/ \E environment \in TrendReadings : AssessTrendReading(environment)
    \/ \E sensorId \in EngineSensorIds, hours \in TrendWindows :
          GetRiskTrend(sensorId, hours)

TrendSpec == EngineInit /\ [][TrendNext]_vars

(***************************************************************************)
(* The context updated between invocations                                 *)
(***************************************************************************)
\* the fields of the context the update methods may write
HeldContext ==
    [farmerInputs |-> farmerInputs, environmentalData |-> environmentalData,
     marketData |-> marketData, timestamp |-> timestamp]

\* updateEnvironmentalData that leaves this.timestamp as it was
updateEnvironmentalData_KeepTimestamp(context, newData, clock) ==
    [context EXCEPT !.environmentalData = newData]

\* the context after updateEnvironmentalData(newData) at time clock
updateEnvironmentalData(context, newData, clock) ==
    [context EXCEPT !.environmentalData = newData, !.timestamp = clock]

\* the context after updateMarketData(newData) at time clock
updateMarketData(context, newData, clock) ==
    [context EXCEPT !.marketData = newData, !.timestamp = clock]

\* the update methods are called this many times
MaxUpdates == 2

\* generateRecommendation is called this many times
MaxCalls == 2

\* new readings: hot and humid, and a mild one that is too old to be valid
EnvironmentUpdates ==
    {[temperature |-> 38, humidity |-> 85, timestamp |-> 0, sensorId |-> "sensor-1"],
     [temperature |-> 22, humidity |-> 50, timestamp |-> -30, sensorId |-> "sensor-1"]}

\* new market data: a lower price, and a price that is not valid
MarketUpdates ==
    {[currentPrice |-> 1500, lastUpdated |-> 0], [currentPrice |-> 0, lastUpdated |-> 0]}

\* the snapshots set last: by the constructor, or by the updates so far
LatestSet ==
    IF lastOp = NoOp
    THEN [environment |-> IdleContext.environment, market |-> IdleContext.market]
    ELSE lastOp.latest

\* no generateRecommendation is running: the core is synchronous
BetweenInvocations == pc \in {"idle", "Done", "Rejected", "Failed"}

\* context.updateEnvironmentalData(newData)
UpdateEnvironmentalData(newData) ==
    /\ BetweenInvocations
    /\ updates < MaxUpdates
    /\ \E after \in {updateEnvironmentalData(HeldContext, newData, now)} :
          /\ farmerInputs' = after.farmerInputs
          /\ environmentalData' = after.environmentalData
          /\ marketData' = after.marketData
          /\ timestamp' = after.timestamp
    /\ updates' = updates + 1
    /\ lastOp' = [name |-> "updateEnvironmentalData", newData |-> newData,
                  latest |-> [LatestSet EXCEPT !.environment = newData]]
    /\ UNCHANGED <<pc, now, parameters, errors, thrown, suitability, storageOptions,
                   recommendedOption, alternativeOption, verdict, failure, riskHistory,
                   calls, assessed>>

\* context.updateMarketData(newData)
UpdateMarketData(newData) ==
    /\ BetweenInvocations
    /\ updates < MaxUpdates
    /\ \E after \in {updateMarketData(HeldContext, newData, now)} :
          /\ farmerInputs' = after.farmerInputs
          /\ environmentalData' = after.environmentalData
          /\ marketData' = after.marketData
          /\ timestamp' = after.timestamp
    /\ updates' = updates + 1
    /\ lastOp' = [name |-> "updateMarketData", newData |-> newData,
                  latest |-> [LatestSet EXCEPT !.market = newData]]
    /\ UNCHANGED <<pc, now, parameters, errors, thrown, suitability, storageOptions,
                   recommendedOption, alternativeOption, verdict, failure, riskHistory,
                   calls, assessed>>

\* generateRecommendation is entered again on the same context, after an
\* earlier invocation has returned or thrown: its locals start afresh
GenerateRecommendationAgain(params) ==
    /\ pc \in {"Done", "Rejected", "Failed"}
    /\ calls < MaxCalls
    /\ pc' = "Validating"
    /\ parameters' = params
    /\ calls' = calls + 1
    /\ errors' = <<>>
    /\ thrown' = {}
    /\ suitability' = <<>>
    /\ storageOptions' = <<>>
    /\ recommendedOption' = NoOption
    /\ alternativeOption' = NoOption
    /\ verdict' = NoVerdict
    /\ failure' = "none"
    /\ UNCHANGED <<now, farmerInputs, environmentalData, marketData, timestamp,
                   riskHistory>>
    /\ UNCHANGED callVars

UpdateNext ==
    \/ Tick
    \/ GenerateRecommendation(getDefaultParameters)
    \/ GenerateRecommendationAgain(getDefaultParameters)
    \/ Validate
    \/ Evaluate({})
    \/ Select
    \/ Explain
    \/ \E newData \in EnvironmentUpdates : UpdateEnvironmentalData(newData)
    \/ \E newData \in MarketUpdates : UpdateMarketData(newData)

UpdateSpec == EngineInit /\ [][UpdateNext]_vars

(***************************************************************************)
(* The selection policies applied to lists of options                      *)
(***************************************************************************)
\* the risk factors a strategy can push, in the order getRiskFactors pushes them
PossibleRiskFactors(method) ==
    IF method = COLD_STORAGE
    THEN <<"cold:distance", "cold:volume">>
    ELSE <<"solar:humidity", "solar:temperature", "solar:perishable",
           "warning:temperature", "warning:humidity">>

\* a StorageOption of a method for the crop of IdleContext, with a net value
\* and a number of risk factors
OptionWith(method, netValue, count) ==
    [method |-> method,
     totalCost |-> IdleContext.inputs.cropVolume * IdleContext.market.currentPrice
                   - netValue,
     expectedLosses |-> 0,
     netValue |-> netValue,
     riskFactors |-> SubSeq(PossibleRiskFactors(method), 1, count),
     riskFactorsArray |-> method]

\* net values: a loss, a small gain and two large ones that are close
NetValues == {-2052, 832, 90467, 97376}

\* the options a strategy can give
OptionsOf(method) ==
    {OptionWith(method, netValue, count) :
        netValue \in NetValues, count \in 0..Len(PossibleRiskFactors(method))}

\* the lists calculateAllStorageOptions can give to selectBestOption: one
\* option per evaluated strategy, in registry order
OptionLists ==
    {<<cold>> : cold \in OptionsOf(COLD_STORAGE)}
    \cup {<<solar>> : solar \in OptionsOf(SOLAR_DRYING)}
    \cup {<<cold, solar>> : cold \in OptionsOf(COLD_STORAGE),
                             solar \in OptionsOf(SOLAR_DRYING)}

\* this.selectBestOption(options, parameters)
SelectBestOption(options, params) ==
    /\ pc = "idle"
    /\ lastOp = NoOp
    /\ lastOp' = [name |-> "selectBestOption", options |-> options,
                  parameters |-> params,
                  result |-> selectBestOption(options, params)]
    /\ UNCHANGED <<contextVars, riskHistory, assessed>>

SelectNext ==
    \E options \in OptionLists, params \in DecisionParameterValues :
        SelectBestOption(options, params)

SelectSpec == EngineInit /\ [][SelectNext]_vars

(***************************************************************************)
(* The same request made twice                                             *)
(***************************************************************************)
\* the contexts on which generateRecommendation is called twice
RepeatContexts ==
    {ctx \in NominalContexts :
        /\ ctx.inputs.distanceFromHub = 30
        /\ ctx.inputs.cropVolume \in {5, 50}
        /\ ctx.environment.humidity \in {50, 85}
        /\ ctx.market.currentPrice = 2500}

RepeatInit ==
    /\ Init
    /\ now = 0
    /\ [inputs |-> farmerInputs, environment |-> environmentalData,
        market |-> marketData] \in RepeatContexts

\* generateRecommendation(params) is called once more on the same context
\* after it has returned or thrown; the caller keeps what the earlier call
\* was given and what it returned
GenerateRecommendationOnceMore(params) ==
    /\ pc \in {"Done", "Rejected", "Failed"}
    /\ calls < MaxCalls
    /\ lastOp' = [name |-> "generateRecommendation", parameters |-> parameters,
                  thrown |-> thrown, verdict |-> verdict, failure |-> failure]
    /\ pc' = "Validating"
    /\ parameters' = params
    /\ calls' = calls + 1
    /\ errors' = <<>>
    /\ thrown' = {}
    /\ suitability' = <<>>
    /\ storageOptions' = <<>>
    /\ recommendedOption' = NoOption
    /\ alternativeOption' = NoOption
    /\ verdict' = NoVerdict
    /\ failure' = "none"
    /\ UNCHANGED <<now, farmerInputs, environmentalData, marketData, timestamp,
                   riskHistory, updates, assessed>>

\* the selection applied to a list of options, or a context asked for its
\* recommendation, more than once
RepeatNext ==
    \/ /\ calls = 0
       /\ SelectNext
    \/ /\ lastOp = NoOp
       /\ \E params \in DecisionParameterValues : GenerateRecommendation(params)
    \/ \E params \in DecisionParameterValues : GenerateRecommendationOnceMore(params)
    \/ Validate
    \/ \E raising \in SUBSET StorageMethod : Evaluate(raising)
    \/ Select
    \/ Explain

RepeatSpec == RepeatInit /\ [][RepeatNext]_vars

(***************************************************************************)
(* Strategies asked whether they are suitable                              *)
(***************************************************************************)
\* strategies as new StorageStrategy(method, parameters) makes them: the
\* registry's costs, capacities on either side of the volumes, availability
\* factors around 0.5
SuitabilityStrategies ==
    {[STORAGE_STRATEGIES(method) EXCEPT !.capacityLimit = c, !.availabilityFactor = a] :
        method \in StorageMethod, c \in {500, 1000}, a \in {49, 50, 80, 95}}

\* volumes on the capacities and right above them
SuitabilityInputs ==
    [cropType : {"wheat", "tomato"}, distanceFromHub : {30},
     cropVolume : {500, 501, 1000, 1001}]

\* readings from mild to the hottest and most humid that are valid
SuitabilityReadings ==
    [temperature : {22, 38, 60}, humidity : {50, 85, 100}, timestamp : {-6},
     sensorId : {"sensor-1"}]

\* strategy.isSuitable(inputs, environment); the Solar Drying strategy has
\* its engine assess the reading
IsSuitable(strategy, inputs, environment) ==
    /\ pc = "idle"
    /\ lastOp = NoOp
    /\ riskHistory' = [riskHistory EXCEPT
                          ![strategy.method] =
                              isSuitableHistory(strategy.method, @, environment)]
    /\ assessed' = IF strategy.method = SOLAR_DRYING
                   THEN LogReading(assessed, environment) ELSE assessed
    /\ lastOp' = [name |-> "isSuitable", strategy |-> strategy, inputs |-> inputs,
                  environment |-> environment,
                  result |-> isSuitableOf(strategy, inputs, environment)]
    /\ UNCHANGED contextVars

SuitabilityNext ==
    \E strategy \in SuitabilityStrategies, inputs \in SuitabilityInputs,
       environment \in SuitabilityReadings :
        IsSuitable(strategy, inputs, environment)

SuitabilitySpec == EngineInit /\ [][SuitabilityNext]_vars

(***************************************************************************)
(* The engines between and during invocations                              *)
(***************************************************************************)
\* contexts that validate: volumes within and above Solar Drying's capacity,
\* readings from mild to hot and humid
ReadingContexts ==
    {ctx \in NominalContexts :
        /\ ctx.inputs.distanceFromHub = 30
        /\ ctx.inputs.cropVolume \in {50, 600}
        /\ ctx.environment.humidity \in {50, 85}
        /\ ctx.market.currentPrice = 2500}

ReadingInit ==
    /\ Init
    /\ now = 0
    /\ [inputs |-> farmerInputs, environment |-> environmentalData,
        market |-> marketData] \in ReadingContexts

\* riskEngine.getRiskTrend(sensorId, hours) on the engine of the Solar Drying
\* strategy, after an invocation
GetRiskTrendAfter(sensorId, hours) ==
    /\ pc \in {"Done", "Failed"}
    /\ lastOp = NoOp
    /\ lastOp' = [name |-> "getRiskTrend", sensorId |-> sensorId, hours |-> hours,
                  result |-> getRiskTrend(riskHistory[SOLAR_DRYING], sensorId, hours, now)]
    /\ UNCHANGED <<contextVars, riskHistory, assessed>>

\* riskEngine.getDetailedRiskAnalysis(environment, crop) on the engine of the
\* Solar Drying strategy, after an invocation
GetDetailedRiskAnalysisAfter(environment, crop) ==
    /\ pc \in {"Done", "Failed"}
    /\ lastOp = NoOp
    /\ lastOp' = [name |-> "getDetailedRiskAnalysis", environment |-> environment,
                  crop |-> crop,
                  result |-> [riskLevel |-> getRiskLevel(environment),
                              riskFactors |-> calculateRiskFactors(environment, crop,
                                                  DefaultExposureHours),
                              warnings |-> DetailedRiskWarnings(environment)]]
    /\ UNCHANGED <<contextVars, riskHistory, assessed>>

ReadingNext ==
    \/ \E params \in DecisionParameterValues : GenerateRecommendation(params)
    \/ \E params \in DecisionParameterValues : GenerateRecommendationAgain(params)
    \/ Validate
    \/ \E raising \in SUBSET {SOLAR_DRYING} : Evaluate(raising)
    \/ Select
    \/ Explain
    \/ \E hours \in TrendWindows : GetRiskTrendAfter(environmentalData.sensorId, hours)
    \/ GetDetailedRiskAnalysisAfter(environmentalData, farmerInputs.cropType)

ReadingSpec == ReadingInit /\ [][ReadingNext]_vars

(***************************************************************************)
(* Contexts that collect risk factors                                      *)
(***************************************************************************)
\* contexts on both sides of every test of getRiskFactors: perishability 7
\* and 8, 35 and 36 degrees, 70, 71, 80 and 81 percent, 200 and 201 km, 9 and
\* 10 quintals; and the hottest, most humid and most perishable that validate
RiskFactorContexts ==
    {[inputs |-> [cropType |-> c, distanceFromHub |-> d, cropVolume |-> v],
      environment |-> [temperature |-> t, humidity |-> h, timestamp |-> -6,
                       sensorId |-> "sensor-1"],
      market |-> [currentPrice |-> 2500, lastUpdated |-> -1]] :
        c \in {"score-1", "score-7", "score-8", "score-10"}, d \in {200, 201},
        v \in {9, 10}, t \in {35, 36, 60}, h \in {70, 71, 80, 81, 100}}

\* new DecisionContext(...) on one of these contexts
RiskFactorInit ==
    /\ pc = "idle"
    /\ now = 0
    /\ \E ctx \in RiskFactorContexts :
          /\ farmerInputs = ctx.inputs
          /\ environmentalData = ctx.environment
          /\ marketData = ctx.market
    /\ timestamp = now
    /\ parameters = NoParameters
    /\ errors = <<>>
    /\ thrown = {}
    /\ suitability = <<>>
    /\ storageOptions = <<>>
    /\ recommendedOption = NoOption
    /\ alternativeOption = NoOption
    /\ verdict = NoVerdict
    /\ failure = "none"
    /\ riskHistory = [m \in StorageMethod |-> <<>>]
    /\ calls = 0
    /\ updates = 0
    /\ lastOp = NoOp
    /\ assessed = <<>>

RiskFactorNext ==
    \/ \E params \in DecisionParameterValues : GenerateRecommendation(params)
    \/ Validate
    \/ \E raising \in SUBSET StorageMethod : Evaluate(raising)
    \/ Select
    \/ Explain

RiskFactorSpec == RiskFactorInit /\ [][RiskFactorNext]_vars

(***************************************************************************)
(* Contexts around the capacity limits                                     *)
(***************************************************************************)
\* contexts that validate, with volumes on and right above both capacity
\* limits and twice the larger one
CapacityContexts ==
    {[inputs |-> [cropType |-> c, distanceFromHub |-> 30, cropVolume |-> v],
      environment |-> [temperature |-> t, humidity |-> h, timestamp |-> -6,
                       sensorId |-> "sensor-1"],
      market |-> [currentPrice |-> p, lastUpdated |-> -1]] :
        c \in {"wheat", "tomato"}, v \in {1, 500, 501, 1000, 1001, 2000},
        t \in {22, 60}, h \in {50, 100}, p \in {1, 2500}}

\* new DecisionContext(...) on one of these contexts
CapacityInit ==
    /\ pc = "idle"
    /\ now = 0
    /\ \E ctx \in CapacityContexts :
          /\ farmerInputs = ctx.inputs
          /\ environmentalData = ctx.environment
          /\ marketData = ctx.market
    /\ timestamp = now
    /\ parameters = NoParameters
    /\ errors = <<>>
    /\ thrown = {}
    /\ suitability = <<>>
    /\ storageOptions = <<>>
    /\ recommendedOption = NoOption
    /\ alternativeOption = NoOption
    /\ verdict = NoVerdict
    /\ failure = "none"
    /\ riskHistory = [m \in StorageMethod |-> <<>>]
    /\ calls = 0
    /\ updates = 0
    /\ lastOp = NoOp
    /\ assessed = <<>>

CapacityNext ==
    \/ \E params \in DecisionParameterValues : GenerateRecommendation(params)
    \/ Validate
    \/ \E raising \in SUBSET StorageMethod : Evaluate(raising)
    \/ Select
    \/ Explain

CapacitySpec == CapacityInit /\ [][CapacityNext]_vars

(***************************************************************************)
(* Properties                                                              *)
(***************************************************************************)
\* the invocation has returned or raised
Ended == pc \in {"Done", "Rejected", "Failed"}

\* validation is behind the invocation
Validated == pc \notin {"idle", "Validating"}

\* The eight validation checks as section 4.3 words them, evaluated on the
\* context's fields: the set of the checks the inputs violate.
ViolatedChecks ==
    {c \in {"crop", "distance", "volume", "temperature", "humidity", "price",
            "environment-age", "market-age"} :
        \/ c = "crop" /\ farmerInputs.cropType = NoCrop
        \/ c = "distance" /\ farmerInputs.distanceFromHub \notin 1..1000
        \/ c = "volume" /\ farmerInputs.cropVolume \notin 1..10000
        \/ c = "temperature" /\ environmentalData.temperature \notin -10..60
        \/ c = "humidity" /\ environmentalData.humidity \notin 0..100
        \/ c = "price" /\ ~(marketData.currentPrice > 0)
        \/ c = "environment-age" /\ now - environmentalData.timestamp > 24
        \/ c = "market-age" /\ now - marketData.lastUpdated > 7 * 24}

\* C1: generateRecommendation returns a verdict only if none of the eight
\* validation checks is violated; if at least one is violated it raises the
\* validation error before any storage strategy is evaluated (no isSuitable
\* result, no option, no risk-history entry) and no verdict is produced.
C1_VerdictOnlyIfValid ==
    /\ verdict # NoVerdict => ViolatedChecks = {}
    /\ Validated /\ ViolatedChecks # {} =>
          /\ pc = "Rejected"
          /\ failure = "Invalid inputs"
          /\ verdict = NoVerdict
          /\ suitability = <<>> /\ storageOptions = <<>> /\ thrown = {}
          /\ \A m \in StorageMethod : riskHistory[m] = <<>>

\* an invocation on inputs that violate some check has been rejected
C1_Witness == pc = "Rejected" /\ ViolatedChecks # {} /\ verdict = NoVerdict

\* C2: inputs violating exactly N of the eight checks yield exactly N error
\* messages, one per violated check, and isValid (the invocation goes on past
\* validation) is true exactly when N = 0.
C2_OneMessagePerViolation ==
    Validated =>
        /\ Len(errors) = Cardinality(ViolatedChecks)
        /\ Range(errors) = ViolatedChecks
        /\ (pc = "Rejected") = (Cardinality(ViolatedChecks) > 0)

\* all eight checks are violated at once and all eight messages are listed
C2_Witness == pc = "Rejected" /\ Cardinality(ViolatedChecks) = 8 /\ Len(errors) = 8

\* selectBestOption has returned
Chosen == pc \in {"Explaining", "Done"}

\* the evaluated options with at most 2 risk factors
LowRiskEvaluated == {o \in Range(storageOptions) : Len(o.riskFactors) <= 2}

\* position of an evaluated option in the evaluated list
PositionOf(o) == CHOOSE i \in 1..Len(storageOptions) : storageOptions[i] = o

\* C3: when prioritizeProfit is true the recommended option is an evaluated
\* option whose net value is at least the net value of every evaluated option,
\* for any riskTolerance and any risk-factor counts.
C3_ProfitFirst ==
    Chosen /\ parameters.prioritizeProfit =>
        /\ recommendedOption \in Range(storageOptions)
        /\ \A o \in Range(storageOptions) : recommendedOption.netValue >= o.netValue
        /\ pc = "Done" => verdict.recommendedOption = recommendedOption

\* under 'low' tolerance with prioritizeProfit set, the verdict recommends the
\* more profitable option although the other one has fewer risk factors
C3_Witness ==
    /\ pc = "Done" /\ parameters.prioritizeProfit /\ parameters.riskTolerance = "low"
    /\ \E o \in Range(storageOptions) :
          /\ o.netValue < verdict.recommendedOption.netValue
          /\ Len(o.riskFactors) < Len(verdict.recommendedOption.riskFactors)

EligibleMethods ==
    {m \in StorageMethod \ thrown :
        \/ isSuitable(m, farmerInputs, environmentalData).suitable
        \/ parameters.riskTolerance = "high"}

\* C5: if validation passes but no method yields an eligible option, the
\* invocation fails with the no-options error and produces no verdict; an
\* invocation ends without a verdict only on a validation failure or on zero
\* eligible options.
C5_OnlyTwoAborts ==
    Ended =>
        /\ ViolatedChecks = {} /\ EligibleMethods = {} =>
              /\ pc = "Failed"
              /\ failure = "No suitable storage options available"
              /\ verdict = NoVerdict
        /\ verdict = NoVerdict => ViolatedChecks # {} \/ EligibleMethods = {}
        /\ verdict # NoVerdict => pc = "Done" /\ failure = "none"

\* valid inputs, every method unsuitable, and the invocation failed
C5_Witness ==
    /\ pc = "Failed" /\ ViolatedChecks = {} /\ thrown = {}
    /\ \A i \in 1..Len(suitability) : ~suitability[i].suitable
    /\ Len(suitability) = Len(getAllStorageStrategies)

\* evaluation is behind the invocation
Evaluated == pc \in {"Selecting", "Explaining", "Done", "Failed"}

IsEligible(m) == m \in EligibleMethods

IsNotThrown(m) == m \notin thrown

\* C6: a method's option is in the evaluated list iff its evaluation did not
\* raise and (it is suitable or riskTolerance is 'high'); a method that raises
\* removes only itself: every other method is still evaluated, and the
\* evaluated list is in registry order.
C6_EvaluatedIffEligible ==
    Evaluated =>
        /\ [i \in 1..Len(storageOptions) |-> storageOptions[i].method]
              = SelectSeq(getAllStorageStrategies, IsEligible)
        /\ [i \in 1..Len(suitability) |-> suitability[i].method]
              = SelectSeq(getAllStorageStrategies, IsNotThrown)

\* the first method raised, and the second one was still evaluated and listed
C6_Witness ==
    /\ Evaluated /\ thrown = {getAllStorageStrategies[1]}
    /\ Len(storageOptions) = 1
    /\ storageOptions[1].method = getAllStorageStrategies[2]

\* the evaluated options of another method than the recommended one
OtherMethodOptions ==
    {o \in Range(storageOptions) : o.method # verdict.recommendedOption.method}

\* C7: the alternative's method differs from the recommended method; if another
\* method was evaluated, the alternative is the evaluated option of a different
\* method with the highest net value; otherwise it is the recommended option
\* with only the method tag flipped.
C7_AlternativeDiffers ==
    pc = "Done" =>
        /\ verdict.alternativeOption.method \in StorageMethod
        /\ verdict.alternativeOption.method # verdict.recommendedOption.method
        /\ IF OtherMethodOptions # {}
           THEN /\ verdict.alternativeOption \in OtherMethodOptions
                /\ \A o \in OtherMethodOptions :
                      verdict.alternativeOption.netValue >= o.netValue
           ELSE /\ verdict.alternativeOption.totalCost = verdict.recommendedOption.totalCost
                /\ verdict.alternativeOption.expectedLosses
                      = verdict.recommendedOption.expectedLosses
                /\ verdict.alternativeOption.netValue = verdict.recommendedOption.netValue
                /\ verdict.alternativeOption.riskFactors
                      = verdict.recommendedOption.riskFactors

\* the recommended method is the only evaluated one: the alternative is made up
C7_Witness ==
    /\ pc = "Done" /\ Len(storageOptions) = 1
    /\ verdict.alternativeOption \notin Range(storageOptions)
    /\ verdict.alternativeOption.method # verdict.recommendedOption.method

\* C8: potentialSavings = max(0, recommended.netValue - alternative.netValue);
\* it is never negative, also when the alternative has the higher net value.
C8_SavingsFloored ==
    pc = "Done" =>
        LET diff == verdict.recommendedOption.netValue - verdict.alternativeOption.netValue
        IN  /\ verdict.potentialSavings >= 0
            /\ diff >= 0 => verdict.potentialSavings = diff
            /\ diff < 0 => verdict.potentialSavings = 0

\* without prioritizeProfit the alternative is worth more than the recommended
\* option, and the savings are 0
C8_Witness ==
    /\ pc = "Done" /\ ~parameters.prioritizeProfit
    /\ verdict.alternativeOption.netValue > verdict.recommendedOption.netValue
    /\ verdict.potentialSavings = 0

\* the environmental reading is more than 6 hours old
ReadingIsOld == now - environmentalData.timestamp > 6

\* number of risk factors over all evaluated options
TotalRiskFactors ==
    SeqSum([i \in 1..Len(storageOptions) |-> Len(storageOptions[i].riskFactors)])

\* C9: with fewer than 2 evaluated options the confidence is exactly 0.6,
\* whatever the age of the reading and the option's risk-factor count.
C9_ConfidenceFloor ==
    pc = "Done" /\ Len(storageOptions) < 2 => verdict.confidenceLevel = 60

\* one evaluated option with more than 3 risk factors on an old reading
C9_Witness ==
    /\ pc = "Done" /\ Len(storageOptions) = 1
    /\ ReadingIsOld /\ TotalRiskFactors > 3
    /\ verdict.confidenceLevel = 60

\* the net values of the evaluated options, as a sequence
EvaluatedNetValues == [i \in 1..Len(storageOptions) |-> storageOptions[i].netValue]

\* the highest net value
BestNetValue == SeqMax(EvaluatedNetValues)

\* the second highest net value: the highest once one best option is left out
SecondBestNetValue ==
    LET k == CHOOSE i \in 1..Len(storageOptions) : EvaluatedNetValues[i] = BestNetValue
    IN  SeqMax([i \in 1..(Len(storageOptions) - 1) |->
                    EvaluatedNetValues[IF i < k THEN i ELSE i + 1]])

\* C10's value: round2(min(0.9, 0.5 + m) * a * r) in hundredths, where m = mn/md.
\* The unrounded value times 200 is twoHundredX = num/den; c is its rounding
\* when 2c - 1 <= num/den < 2c + 1.
ClaimedConfidence ==
    LET mn == IF BestNetValue > 0 THEN BestNetValue - SecondBestNetValue ELSE 0
        md == IF BestNetValue > 0 THEN BestNetValue ELSE 1
        a10 == IF ReadingIsOld THEN 9 ELSE 10
        r10 == IF TotalRiskFactors > 3 * Len(storageOptions) THEN 8 ELSE 10
        \* 0.5 + m >= 0.9 iff m >= 0.4
        atCap == 10 * mn >= 4 * md
        num == IF atCap THEN 18 * a10 * r10 ELSE (md + 2 * mn) * a10 * r10
        den == IF atCap THEN 10 ELSE md
    IN  CHOOSE c \in 0..100 : (2 * c - 1) * den <= num /\ num < (2 * c + 1) * den

\* C10: with 2 or more evaluated options the confidence is
\* round2(min(0.9, 0.5 + m) * a * r) with m the relative margin between the two
\* highest net values (0 when the best is not positive), a = 0.9 for a reading
\* older than 6 hours, r = 0.8 for a mean risk-factor count above 3; it lies in
\* [0, 1] and never exceeds 0.9.
C10_ConfidenceFormula ==
    pc = "Done" /\ Len(storageOptions) >= 2 =>
        /\ verdict.confidenceLevel = ClaimedConfidence
        /\ verdict.confidenceLevel \in 0..90

\* two options, a positive margin below the cap, an old reading and a mean
\* risk-factor count above 3: both reductions apply
C10_Witness ==
    /\ pc = "Done" /\ Len(storageOptions) = 2
    /\ BestNetValue > 0 /\ BestNetValue > SecondBestNetValue
    /\ 10 * (BestNetValue - SecondBestNetValue) < 4 * BestNetValue
    /\ ReadingIsOld /\ TotalRiskFactors > 3 * Len(storageOptions)
    /\ verdict.confidenceLevel = ClaimedConfidence

(***************************************************************************)
(* The phases of one invocation                                            *)
(***************************************************************************)
\* one step of an invocation: the phase it leaves and the phase it enters
PhaseStep ==
    pc' # pc =>
        \/ pc = "idle" /\ pc' = "Validating"
        \/ pc = "Validating" /\ pc' = "Evaluating" /\ errors' = <<>>
        \/ /\ pc = "Validating" /\ pc' = "Rejected"
           /\ failure' = "Invalid inputs" /\ verdict' = NoVerdict
        \/ pc = "Evaluating" /\ pc' = "Selecting"
        \/ pc = "Selecting" /\ pc' = "Explaining"
        \/ /\ pc = "Selecting" /\ pc' = "Failed" /\ storageOptions = <<>>
           /\ failure' = "No suitable storage options available"
           /\ verdict' = NoVerdict
        \/ pc = "Explaining" /\ pc' = "Done" /\ verdict' # NoVerdict /\ failure' = "none"

\* C11 as claimed: an invocation ends without a verdict only out of Validating,
\* never after the evaluation has started.
C11_Claimed_RejectedOnlyFromValidating ==
    [][(failure = "none" /\ failure' # "none") => pc = "Validating"]_vars

\* C11: each invocation goes through Validating, Evaluating, Selecting and
\* Explaining in that order and ends in Done with a verdict, or it ends without
\* one: in Rejected, entered only from Validating on invalid input, or with
\* "No suitable storage options available", raised only from Selecting when
\* no option was evaluated; and every invocation that is entered ends.
C11_PhasesInOrder ==
    /\ [][PhaseStep]_vars
    /\ (pc = "Validating") ~> Ended

\* an invocation on valid inputs has ended without a verdict after evaluating
C11_Witness ==
    /\ pc = "Failed" /\ errors = <<>> /\ suitability # <<>>
    /\ storageOptions = <<>> /\ verdict = NoVerdict

(***************************************************************************)
(* The rolling history                                                     *)
(***************************************************************************)
\* the engine whose assessSolarDryingRisk is called
EngineHistory == riskHistory[SOLAR_DRYING]

\* the last n entries of a sequence
LastEntries(seq, n) == SubSeq(seq, Len(seq) - n + 1, Len(seq))

\* C12: after any sequence of assessSolarDryingRisk calls on one engine, every
\* sensor's rolling history holds at most 100 entries, and it holds exactly the
\* most recent min(n, 100) readings assessed for that sensor, in arrival order.
C12_HistoryIsLastHundred ==
    /\ DOMAIN EngineHistory = DOMAIN assessed
    /\ \A s \in DOMAIN assessed :
          /\ Len(EngineHistory[s]) <= 100
          /\ EngineHistory[s] = LastEntries(assessed[s], Min(Len(assessed[s]), 100))

\* a sensor has reported more than 100 readings and its first one is gone
C12_Witness ==
    \E s \in DOMAIN assessed :
        /\ Len(assessed[s]) > 100
        /\ Len(EngineHistory[s]) = 100
        /\ EngineHistory[s][1] = assessed[s][Len(assessed[s]) - 99]
        /\ EngineHistory[s][1] # assessed[s][1]

(***************************************************************************)
(* The ranges of an assessment                                             *)
(***************************************************************************)
\* assessSolarDryingRisk has returned
Assessed == lastOp.name = "assessSolarDryingRisk"

\* C13: for every reading that passes validation, every crop with perishability
\* 1..10 and every exposureHours >= 0, assessSolarDryingRisk returns spoilageRisk
\* in [0, 1], solarDryingViability = 1 - spoilageRisk in [0, 1] and
\* environmentalMultiplier in [1.0, 3.0] (and it returns: it does not raise).
C13_AssessmentInRange ==
    /\ Assessments > 0 => Assessed
    /\ Assessed =>
          /\ lastOp.result.spoilageRisk >= 0
          /\ lastOp.result.spoilageRisk <= FracScale
          /\ lastOp.result.solarDryingViability = FracScale - lastOp.result.spoilageRisk
          /\ lastOp.result.solarDryingViability >= 0
          /\ lastOp.result.solarDryingViability <= FracScale
          /\ lastOp.result.environmentalMultiplier >= ScoreScale
          /\ lastOp.result.environmentalMultiplier <= 3 * ScoreScale

\* the worst case has been assessed: both scores at 1, perishability 10, the
\* exposure past its cap, where w * (1 + w) = 2 is cut to 1
C13_Witness ==
    /\ Assessed
    /\ lastOp.environment.temperature = 60 /\ lastOp.environment.humidity = 100
    /\ perishabilityScore(lastOp.crop) = 10 /\ lastOp.exposureHours > MaxExposureHours
    /\ lastOp.result.spoilageRisk = FracScale
    /\ lastOp.result.solarDryingViability = 0
    /\ lastOp.result.environmentalMultiplier = 3 * ScoreScale

(***************************************************************************)
(* Risk scores and risk levels                                             *)
(***************************************************************************)
\* the default optimal bands of section 4.1
OptimalTemperatures == 15..25

OptimalHumidities == 40..60

\* the default warning bands of section 4.1
WarningTemperatures == 10..35

WarningHumidities == 20..80

\* two scores have been computed
Scored == lastOp.name \in {"getTemperatureRiskScore", "getHumidityRiskScore"}

\* the optimal band of the quantity that was scored
ScoredBand ==
    IF lastOp.name = "getTemperatureRiskScore"
    THEN OptimalTemperatures ELSE OptimalHumidities

\* y lies on the same side of the band as x and at least as far from it
FurtherOut(x, y, band) ==
    \/ (\A b \in band : x > b) /\ y >= x
    \/ (\A b \in band : x < b) /\ y <= x

\* C14: for temperature and for humidity, a value inside the optimal band has
\* risk score 0; for two values x, y on the same side of the band with y
\* further from the band than x, score(y) >= score(x); all scores are in [0, 1].
C14_ScoreMonotone ==
    Scored =>
        /\ \A i \in 1..2 :
              /\ lastOp.result[i] >= 0 /\ lastOp.result[i] <= ScoreScale
              /\ lastOp.values[i] \in ScoredBand => lastOp.result[i] = 0
        /\ FurtherOut(lastOp.values[1], lastOp.values[2], ScoredBand)
              => lastOp.result[2] >= lastOp.result[1]

\* two temperatures above the band: the nearer scores between 0 and 1, the
\* further one lies beyond the critical band and scores 1
C14_Witness ==
    /\ lastOp.name = "getTemperatureRiskScore"
    /\ lastOp.values[1] > 25 /\ lastOp.values[2] > 45
    /\ lastOp.result[1] > 0 /\ lastOp.result[1] < lastOp.result[2]
    /\ lastOp.result[2] = ScoreScale

\* getRiskLevel has returned
Levelled == lastOp.name = "getRiskLevel"

\* C15: getRiskLevel returns GREEN exactly when temperature and humidity are
\* both inside their optimal bands, RED when at least one of them is critical
\* (outside its warning band), whatever the other is, and YELLOW in every
\* other case; the riskLevel field of the reading has no influence.
C15_RiskLevel ==
    Levelled =>
        LET t == lastOp.environment.temperature
            h == lastOp.environment.humidity
            bothOptimal == t \in OptimalTemperatures /\ h \in OptimalHumidities
            oneCritical == t \notin WarningTemperatures \/ h \notin WarningHumidities
        IN  /\ (lastOp.result = "GREEN") = bothOptimal
            /\ (lastOp.result = "RED") = oneCritical
            /\ (lastOp.result = "YELLOW") = (~bothOptimal /\ ~oneCritical)

\* a reading labelled GREEN with a warning temperature and a critical
\* humidity is RED
C15_Witness ==
    /\ Levelled
    /\ lastOp.environment.riskLevel = "GREEN"
    /\ lastOp.environment.temperature \in WarningTemperatures
    /\ lastOp.environment.temperature \notin OptimalTemperatures
    /\ lastOp.environment.humidity \notin WarningHumidities
    /\ lastOp.result = "RED"

(***************************************************************************)
(* Volume linearity                                                        *)
(***************************************************************************)
\* costs and losses have been computed for a volume and for k times it
Scaled == lastOp.name = "scaleVolume"

Trended == lastOp.name = "getRiskTrend"

\* the readings of the sensor asked about, as they were assessed
TrendLog ==
    IF lastOp.sensorId \in DOMAIN assessed THEN assessed[lastOp.sensorId] ELSE <<>>

\* the positions in the log of the readings inside the window, in order
RECURSIVE InWindowFrom(_)
InWindowFrom(i) ==
    IF i > Len(TrendLog) THEN <<>>
    ELSE IF now - TrendLog[i].timestamp < lastOp.hours
    THEN <<i>> \o InWindowFrom(i + 1)
    ELSE InWindowFrom(i + 1)

InWindow == InWindowFrom(1)

\* the sum of the risks of the in-window readings at places from..to, each
\* risk (temperature score + humidity score) / 2 counted in 1/2000
RECURSIVE RiskSum(_, _)
RiskSum(from, to) ==
    IF from > to THEN 0
    ELSE getTemperatureRiskScore(TrendLog[InWindow[from]].temperature)
         + getHumidityRiskScore(TrendLog[InWindow[from]].humidity)
         + RiskSum(from + 1, to)

\* C17: with 0 or 1 readings inside the window getRiskTrend returns 'stable',
\* averageRisk 0, peakRisk 0 and dataPoints equal to the number of in-window
\* readings; with 2 or more it returns 'worsening' exactly when the mean risk
\* of the second half exceeds that of the first half by more than 0.1,
\* 'improving' exactly when it is lower by more than 0.1, 'stable' otherwise.
C17_RiskTrend ==
    Trended =>
        LET n == Len(InWindow)
            first == n \div 2
            second == n - first
            \* (mean of second half - mean of first half) * first * second
            gain == RiskSum(first + 1, n) * first - RiskSum(1, first) * second
            tenth == 200 * first * second
        IN  /\ lastOp.result.dataPoints = n
            /\ n < 2 => /\ lastOp.result.trend = "stable"
                        /\ lastOp.result.averageRisk = 0
                        /\ lastOp.result.peakRisk = 0
            /\ n >= 2 => /\ (lastOp.result.trend = "worsening") = (gain > tenth)
                         /\ (lastOp.result.trend = "improving") = (gain < 0 - tenth)
                         /\ (lastOp.result.trend = "stable")
                              = (gain <= tenth /\ gain >= 0 - tenth)

\* three readings, one of them outside the window; the two inside differ by
\* exactly 0.1 and the trend is stable
C17_Witness ==
    /\ Trended
    /\ Len(TrendLog) = 3 /\ Len(InWindow) = 2
    /\ RiskSum(2, 2) - RiskSum(1, 1) = 200
    /\ lastOp.result.trend = "stable"
    /\ lastOp.result.dataPoints = 2

(***************************************************************************)
(* The wheat scenario                                                      *)
(***************************************************************************)
\* a verdict has been given for wheat, 50 quintals, 30 km, 22 C and 50 %,
\* 2500 per quintal, 30 days, prioritizeProfit, no strategy having raised
WheatScenario ==
    /\ pc = "Done"
    /\ farmerInputs = [cropType |-> "wheat", distanceFromHub |-> 30, cropVolume |-> 50]
    /\ environmentalData.temperature = 22 /\ environmentalData.humidity = 50
    /\ marketData.currentPrice = 2500
    /\ parameters.storageDays = 30 /\ parameters.prioritizeProfit
    /\ thrown = {}

\* both strategies were found suitable and Solar Drying's multiplier is 1.0
BothSuitableAtUnitMultiplier ==
    /\ Len(suitability) = 2
    /\ \A i \in 1..2 : suitability[i].suitable
    /\ {suitability[i].method : i \in 1..2} = StorageMethod
    /\ calculateEnvironmentalMultiplier(environmentalData) = ScoreScale

\* the net value of the option evaluated for a method
NetValueOf(method) ==
    LET i == CHOOSE j \in 1..Len(storageOptions) : storageOptions[j].method = method
    IN  storageOptions[i].netValue

Constructed(method) ==
    generateStorageOption(method, farmerInputs, environmentalData,
                          marketData.currentPrice, parameters.storageDays)

\* the suitability found for a method in this request
SuitabilityOf(method) ==
    suitability[CHOOSE i \in 1..Len(suitability) : suitability[i].method = method]

\* the method was evaluated in this request
HasOption(method) == \E i \in 1..Len(storageOptions) : storageOptions[i].method = method

\* netValue = volume * price - totalCost - expectedLosses
NetValueAddsUp(option) ==
    option.netValue = farmerInputs.cropVolume * marketData.currentPrice
                      - option.totalCost - option.expectedLosses

\* C19 as claimed: the options of a verdict are as generateStorageOption
\* constructed them (method, totalCost, expectedLosses, netValue, risk
\* factors), their net values add up, and the recommended and the alternative
\* option do not share their risk-factor array.
C19_Claimed_NeverMutated ==
    verdict # NoVerdict =>
        /\ verdict.recommendedOption = Constructed(verdict.recommendedOption.method)
        /\ HasOption(verdict.alternativeOption.method)
              => verdict.alternativeOption = Constructed(verdict.alternativeOption.method)
        /\ NetValueAddsUp(verdict.recommendedOption)
        /\ NetValueAddsUp(verdict.alternativeOption)
        /\ verdict.recommendedOption.riskFactorsArray
              # verdict.alternativeOption.riskFactorsArray

\* an evaluated option has the method, the costs, the losses and the net value
\* it was constructed with, and its risk-factor array holds what it held at
\* construction, followed by the suitability reasons if the method is unsuitable
AsEvaluated(option) ==
    LET made == Constructed(option.method)
        suit == SuitabilityOf(option.method)
    IN  /\ option.method = made.method
        /\ option.totalCost = made.totalCost
        /\ option.expectedLosses = made.expectedLosses
        /\ option.netValue = made.netValue
        /\ option.riskFactorsArray = made.riskFactorsArray
        /\ option.riskFactors = IF suit.suitable THEN made.riskFactors
                                ELSE made.riskFactors \o suit.reasons
        /\ NetValueAddsUp(option)

\* C19: after generateStorageOption has constructed an option, its method,
\* totalCost, expectedLosses and netValue never change and netValue = volume *
\* price - totalCost - expectedLosses; its risk-factor list is changed once,
\* before the option joins the evaluated list: the suitability reasons are
\* appended when the method is unsuitable (riskTolerance 'high'). In the verdict
\* the recommended option is an evaluated option, and the alternative is either
\* an evaluated option of another method, with its own risk-factor array, or,
\* when no other method was evaluated, a copy of the recommended option with
\* the method flipped that shares the recommended option's risk-factor array.
C19_MutatedOnlyByReasons ==
    verdict # NoVerdict =>
        LET rec == verdict.recommendedOption
            alt == verdict.alternativeOption
        IN  /\ \A i \in 1..Len(storageOptions) : AsEvaluated(storageOptions[i])
            /\ rec \in Range(storageOptions)
            /\ IF HasOption(alt.method)
               THEN /\ alt \in Range(storageOptions)
                    /\ alt.riskFactorsArray # rec.riskFactorsArray
               ELSE /\ alt = [rec EXCEPT !.method = alt.method]
                    /\ alt.method # rec.method
                    /\ alt.riskFactorsArray = rec.riskFactorsArray
            /\ NetValueAddsUp(rec) /\ NetValueAddsUp(alt)

\* a verdict whose recommended option was unsuitable and carries the reasons
\* behind the risk factors it was constructed with, and whose alternative is
\* the copy that shares its risk-factor array
C19_Witness ==
    /\ verdict # NoVerdict
    /\ ~SuitabilityOf(verdict.recommendedOption.method).suitable
    /\ Len(verdict.recommendedOption.riskFactors)
          > Len(Constructed(verdict.recommendedOption.method).riskFactors)
    /\ ~HasOption(verdict.alternativeOption.method)
    /\ verdict.alternativeOption.riskFactorsArray
          = verdict.recommendedOption.riskFactorsArray

(***************************************************************************)
(* Updates of the context                                                  *)
(***************************************************************************)
\* what neither update may touch: the inputs, the state of an invocation and
\* its verdict, the engines' histories
KeptByUpdates ==
    <<farmerInputs, pc, parameters, errors, thrown, suitability, storageOptions,
      recommendedOption, alternativeOption, verdict, failure, riskHistory, calls>>

\* a step of updateEnvironmentalData or updateMarketData
UpdateStep == updates' # updates

\* the update replaces its snapshot by its argument and sets the timestamp to
\* the time of the call; the other snapshot and all else stay
UpdateReplacesOneSnapshot ==
    /\ timestamp' = now
    /\ UNCHANGED KeptByUpdates
    /\ \/ /\ lastOp'.name = "updateEnvironmentalData"
          /\ environmentalData' = lastOp'.newData
          /\ marketData' = marketData
       \/ /\ lastOp'.name = "updateMarketData"
          /\ marketData' = lastOp'.newData
          /\ environmentalData' = environmentalData

\* validation and evaluation work on the snapshots set last
UsesLatestSnapshots ==
    /\ (pc = "Validating" /\ pc' # pc) =>
          errors' = ValidationErrors(farmerInputs, LatestSet.environment,
                                     LatestSet.market, now)
    /\ (pc = "Evaluating" /\ pc' # pc) =>
          storageOptions' = calculateAllStorageOptions(farmerInputs,
                                LatestSet.environment, LatestSet.market, parameters,
                                riskHistory, {}).options

\* C20: updateEnvironmentalData replaces only the environmental snapshot and
\* the context timestamp, updateMarketData only the market snapshot and the
\* context timestamp; the inputs, the other snapshot and any verdict stay as
\* they are and no verdict is produced; the next generateRecommendation
\* validates and evaluates the snapshots set last.
C20_UpdatesReplaceSnapshots ==
    [][(UpdateStep => UpdateReplacesOneSnapshot) /\ UsesLatestSnapshots]_vars

\* a second invocation has given its verdict after both snapshots were
\* replaced, at a later time than the context was made; the verdict is made
\* of options evaluated at the new price
C20_Witness ==
    /\ pc = "Done" /\ calls = 2 /\ updates = 2
    /\ environmentalData \in EnvironmentUpdates
    /\ marketData \in MarketUpdates
    /\ timestamp > 0
    /\ verdict.recommendedOption \in Range(storageOptions)
    /\ verdict.recommendedOption.netValue + verdict.recommendedOption.totalCost
          + verdict.recommendedOption.expectedLosses
          = farmerInputs.cropVolume * 1500

(***************************************************************************)
(* Producers for different sensors                                         *)
(***************************************************************************)
\* the history of a sensor on the engine, empty before its first reading
HistoryOf(sensorId) ==
    IF sensorId \in DOMAIN EngineHistory THEN EngineHistory[sensorId] ELSE <<>>

\* the number of readings a sensor's producer has had assessed
Produced(sensorId) ==
    IF sensorId \in DOMAIN assessed THEN Len(assessed[sensorId]) ELSE 0

\* the engine as it would be had only the producer of one sensor run: it
\* holds the history of that sensor and no other
AloneEngine(sensorId) ==
    IF sensorId \in DOMAIN EngineHistory
    THEN [s \in {sensorId} |-> EngineHistory[sensorId]]
    ELSE <<>>

\* the history a sensor has when its producer runs alone: the last
\* HistoryLimit readings the producer has had assessed, in order
AloneHistoryOf(sensorId) ==
    LET n == Produced(sensorId)
        kept == Min(n, HistoryLimit)
    IN  [i \in 1..kept |-> assessed[sensorId][n - kept + i]]

\* a step does to the history of its reading's sensor what it would do on an
\* engine no other producer has used
AsIfAlone ==
    LET reading == lastOp'.environment
    IN  /\ reading.sensorId \in DOMAIN EngineHistory'
        /\ EngineHistory'[reading.sensorId]
              = assessSolarDryingRiskHistory(AloneEngine(reading.sensorId),
                                             reading)[reading.sensorId]

\* a step leaves the history of every sensor but that of its reading as it is
OthersUntouched ==
    \A s \in EngineSensorIds :
        s # lastOp'.environment.sensorId =>
            /\ (s \in DOMAIN EngineHistory) = (s \in DOMAIN EngineHistory')
            /\ s \in DOMAIN EngineHistory => EngineHistory'[s] = EngineHistory[s]

\* C21: an assessSolarDryingRisk call for one sensor id leaves the history of
\* every other sensor id unchanged, and however the calls of two producers for
\* different sensor ids interleave, each sensor's history is the one its
\* producer alone would have made.
C21_SensorsIndependent ==
    /\ [][OthersUntouched /\ AsIfAlone]_vars
    /\ [](\A s \in EngineSensorIds : HistoryOf(s) = AloneHistoryOf(s))

\* a reading of sensor-1 has just been assessed while sensor-2 has reported
\* more than its history holds and sensor-1 only a few
C21_Witness ==
    /\ Assessed /\ lastOp.environment.sensorId = "sensor-1"
    /\ Produced("sensor-1") = 3 /\ Len(HistoryOf("sensor-1")) = 3
    /\ Produced("sensor-2") > 100 /\ Len(HistoryOf("sensor-2")) = 100
    /\ HistoryOf("sensor-2")[100].sensorId = "sensor-2"

(***************************************************************************)
(* The balanced policy                                                     *)
(***************************************************************************)
\* selectBestOption has returned
Selected == lastOp.name = "selectBestOption"

\* the options it was given, as a set
Given == Range(lastOp.options)

\* the balanced policy was applied
Balanced ==
    /\ Selected
    /\ ~lastOp.parameters.prioritizeProfit
    /\ lastOp.parameters.riskTolerance = "medium"

\* a value min-max scaled over a set of values, as the fraction num / den:
\* 1/2 when all values are equal
MinMaxScaled(value, values) ==
    LET lo == CHOOSE v \in values : \A w \in values : v <= w
        hi == CHOOSE v \in values : \A w \in values : v >= w
    IN  IF hi > lo THEN [num |-> value - lo, den |-> hi - lo]
        ELSE [num |-> 1, den |-> 2]

\* the first option's normalizedProfit - 0.3 * normalizedRiskPenalty is at
\* least the second's, both scaled over the given options
ScoresAtLeast(a, b) ==
    LET nets == {o.netValue : o \in Given}
        counts == {Len(o.riskFactors) : o \in Given}
        pa == MinMaxScaled(a.netValue, nets)
        pb == MinMaxScaled(b.netValue, nets)
        ra == MinMaxScaled(Len(a.riskFactors), counts)
        rb == MinMaxScaled(Len(b.riskFactors), counts)
    IN  \* pa - 0.3 ra >= pb - 0.3 rb; the denominators are those of the sets
        10 * pa.num * ra.den - 3 * ra.num * pa.den
            >= 10 * pb.num * rb.den - 3 * rb.num * pb.den

\* C22: when prioritizeProfit is false and riskTolerance is 'medium', the
\* recommended option is an evaluated option whose normalizedProfit - 0.3 *
\* normalizedRiskPenalty is the largest, net value and risk-factor count both
\* min-max scaled over the evaluated options (0.5 when all are equal).
C22_BalancedMaximizesScore ==
    Balanced =>
        /\ lastOp.result \in Given
        /\ \A o \in Given : ScoresAtLeast(lastOp.result, o)

\* two options with the same net value: the second has fewer risk factors and
\* is recommended
C22_Witness ==
    /\ Balanced
    /\ Len(lastOp.options) = 2
    /\ lastOp.options[1].netValue = lastOp.options[2].netValue
    /\ Len(lastOp.options[2].riskFactors) < Len(lastOp.options[1].riskFactors)
    /\ lastOp.result = lastOp.options[2]

(***************************************************************************)
(* Determinism of the selection                                            *)
(***************************************************************************)
\* an invocation has given a verdict, and so had the one before it, called
\* with the same parameters, the same strategies having raised
VerdictRepeated ==
    /\ lastOp.name = "generateRecommendation"
    /\ lastOp.verdict # NoVerdict
    /\ pc = "Done"
    /\ parameters = lastOp.parameters
    /\ thrown = lastOp.thrown

\* selectBestOption was given two options with the same net value and as many
\* risk factors, under the 'medium' tolerance
TiedUnderMedium ==
    /\ Selected
    /\ lastOp.parameters.riskTolerance = "medium"
    /\ Len(lastOp.options) = 2
    /\ lastOp.options[1].netValue = lastOp.options[2].netValue
    /\ Len(lastOp.options[1].riskFactors) = Len(lastOp.options[2].riskFactors)

\* C23: two invocations with the same inputs, reading, price and parameters
\* recommend the same method; and of two evaluated options with the same net
\* value and as many risk factors the 'medium' policy recommends the one
\* evaluated first in registry order, Cold Storage.
C23_SelectionDeterministic ==
    /\ VerdictRepeated =>
          verdict.recommendedOption.method = lastOp.verdict.recommendedOption.method
    /\ TiedUnderMedium =>
          /\ lastOp.result = lastOp.options[1]
          /\ lastOp.result.method = getAllStorageStrategies[1]
          /\ lastOp.result.method = COLD_STORAGE

\* the second of two invocations has recommended what the first did, the
\* Solar Drying engine having taken readings in both
C23_Witness ==
    /\ VerdictRepeated
    /\ calls = 2
    /\ Len(storageOptions) = 2
    /\ ~parameters.prioritizeProfit /\ parameters.riskTolerance = "medium"
    /\ verdict.recommendedOption.method = lastOp.verdict.recommendedOption.method
    /\ Len(riskHistory[SOLAR_DRYING]["sensor-1"]) = 10

\* a tie under the balanced policy has gone to Cold Storage
C23_TieWitness ==
    /\ TiedUnderMedium
    /\ ~lastOp.parameters.prioritizeProfit
    /\ Len(lastOp.options[1].riskFactors) > 0
    /\ lastOp.result.method = COLD_STORAGE

(***************************************************************************)
(* Suitability                                                             *)
(***************************************************************************)
\* isSuitable has returned
SuitabilityAsked == lastOp.name = "isSuitable"

\* the constraints the call finds violated
ViolatedConstraints ==
    {c \in {"capacity", "availability", "risk"} :
        \/ /\ c = "capacity"
           /\ lastOp.inputs.cropVolume > lastOp.strategy.capacityLimit
        \/ /\ c = "availability"
           /\ 2 * lastOp.strategy.availabilityFactor < 100
        \/ /\ c = "risk"
           /\ lastOp.strategy.method = SOLAR_DRYING
           /\ 10 * assessSolarDryingRisk(lastOp.environment, lastOp.inputs.cropType,
                                         DefaultExposureHours).spoilageRisk
                 > 8 * FracScale}

\* C24: isSuitable returns suitable = false exactly when the volume exceeds
\* the capacity limit, or the availability factor is below 0.5, or (Solar
\* Drying only) the computed spoilage risk exceeds 0.8; reasons holds exactly
\* one entry per violated constraint, and suitable is true exactly when
\* reasons is empty.
C24_SuitabilityConstraints ==
    SuitabilityAsked =>
        /\ lastOp.result.suitable = (ViolatedConstraints = {})
        /\ Len(lastOp.result.reasons) = Cardinality(ViolatedConstraints)
        /\ Range(lastOp.result.reasons) = {"reason:" \o c : c \in ViolatedConstraints}
        /\ lastOp.result.suitable = (lastOp.result.reasons = <<>>)

\* a Solar Drying strategy has found all three constraints violated and given
\* three reasons
C24_Witness ==
    /\ SuitabilityAsked
    /\ Cardinality(ViolatedConstraints) = 3
    /\ Len(lastOp.result.reasons) = 3
    /\ ~lastOp.result.suitable

(***************************************************************************)
(* The reasoning                                                           *)
(***************************************************************************)
\* the sentence templates in the order of the text
ReasoningTemplates ==
    <<"humidity", "temperature", "profit", "distance", "perishability", "risk">>

\* a template applies to the verdict and the context
TemplateApplies(template) ==
    LET recommended == verdict.recommendedOption
        alternative == verdict.alternativeOption
    IN  \/ /\ template = "humidity"
           /\ environmentalData.humidity > 70 /\ recommended.method = COLD_STORAGE
        \/ /\ template = "temperature"
           /\ environmentalData.temperature > 35 /\ recommended.method = COLD_STORAGE
        \/ /\ template = "profit"
           /\ recommended.netValue - alternative.netValue > 1000
        \/ /\ template = "distance"
           /\ farmerInputs.distanceFromHub > 100 /\ recommended.method = SOLAR_DRYING
        \/ /\ template = "perishability"
           /\ perishabilityScore(farmerInputs.cropType) > 7
           /\ recommended.method = COLD_STORAGE
        \/ /\ template = "risk"
           /\ Len(recommended.riskFactors) < Len(alternative.riskFactors)

\* C25: the reasoning of a verdict has one sentence for each template that
\* applies, in the fixed order humidity, temperature, profit gap, distance,
\* perishability, fewer risk factors; the generic best-balance sentence is
\* there exactly when none of the six applies; the reasoning is never empty.
C25_ReasoningByTemplates ==
    pc = "Done" =>
        /\ verdict.reasoning # <<>>
        /\ ("balance" \in Range(verdict.reasoning))
              = (\A i \in DOMAIN ReasoningTemplates :
                    ~TemplateApplies(ReasoningTemplates[i]))
        /\ SelectSeq(verdict.reasoning, LAMBDA t : t # "balance")
              = SelectSeq(ReasoningTemplates, TemplateApplies)
        /\ Len(verdict.reasoning) <= Len(ReasoningTemplates)

\* a verdict for Cold Storage reasoned by humidity, temperature, profit gap,
\* perishability and the fewer risk factors, in that order
C25_Witness ==
    /\ pc = "Done"
    /\ verdict.recommendedOption.method = COLD_STORAGE
    /\ verdict.reasoning
          = <<"humidity", "temperature", "profit", "perishability", "risk">>

\* a verdict with the generic sentence alone
C25_BalanceWitness ==
    /\ pc = "Done"
    /\ verdict.reasoning = <<"balance">>

\* a verdict for Solar Drying reasoned by the distance and the fewer risk
\* factors
C25_DistanceWitness ==
    /\ pc = "Done"
    /\ "distance" \in Range(verdict.reasoning)
    /\ "risk" \in Range(verdict.reasoning)

(***************************************************************************)
(* Invocations that fail validation                                        *)
(***************************************************************************)
\* a step of an invocation up to the end of its validation: the call is
\* entered, or validateInputs returns and the invocation throws or goes on
UpToValidation == pc' # pc /\ (pc' = "Validating" \/ pc = "Validating")

\* what the context holds and what the engines of the strategies remember
HeldAndRemembered ==
    <<farmerInputs, environmentalData, marketData, timestamp, riskHistory>>

\* an invocation has thrown on validation; the one before it, on readings
\* that were valid, had the Solar Drying engine take readings
RejectedAfterVerdict ==
    /\ pc = "Rejected"
    /\ calls = 2
    /\ "sensor-1" \in DOMAIN riskHistory[SOLAR_DRYING]
    /\ Len(riskHistory[SOLAR_DRYING]["sensor-1"]) = 5

\* C26: an invocation that fails validation has no side effects: the inputs,
\* both snapshots and the timestamp are as they were, and no reading is
\* appended to the history of any strategy's risk engine.
C26_RejectionHasNoEffect ==
    [][UpToValidation => UNCHANGED HeldAndRemembered]_vars

\* the second invocation was rejected and the five readings of the first are
\* all the Solar Drying engine has
C26_Witness ==
    /\ RejectedAfterVerdict
    /\ errors # <<>>
    /\ riskHistory[COLD_STORAGE] = <<>>

(***************************************************************************)
(* Readings taken by the engines                                           *)
(***************************************************************************)
\* the readings the engine of a strategy holds for the context's sensor
ReadingsHeld(method) ==
    IF environmentalData.sensorId \in DOMAIN riskHistory[method]
    THEN riskHistory[method][environmentalData.sensorId]
    ELSE <<>>

\* the context's reading, a number of times
Copies(count) == [i \in 1..count |-> environmentalData]

\* the options were evaluated in this step
EvaluationStep == pc = "Evaluating" /\ pc' = "Selecting"

\* a Solar Drying option is among the evaluated options
SolarGenerated ==
    \E i \in DOMAIN storageOptions : storageOptions[i].method = SOLAR_DRYING

\* Solar Drying was found unsuitable
SolarUnsuitable ==
    \E i \in DOMAIN suitability :
        suitability[i].method = SOLAR_DRYING /\ ~suitability[i].suitable

\* what the evaluation of the options does to the histories, unless Solar
\* Drying's evaluation raised
EvaluationAppends ==
    /\ ReadingsHeld(COLD_STORAGE)' = ReadingsHeld(COLD_STORAGE)
    /\ riskHistory'[COLD_STORAGE] = <<>>
    /\ SOLAR_DRYING \notin thrown' =>
          /\ SolarGenerated' =>
                ReadingsHeld(SOLAR_DRYING)' = ReadingsHeld(SOLAR_DRYING) \o Copies(5)
          /\ (SolarUnsuitable' /\ parameters.riskTolerance # "high") =>
                ReadingsHeld(SOLAR_DRYING)' = ReadingsHeld(SOLAR_DRYING) \o Copies(1)
          /\ SolarGenerated' \/ (SolarUnsuitable' /\ parameters.riskTolerance # "high")

\* C27: one validated invocation appends the same reading to the Solar Drying
\* strategy's history exactly five times when a Solar Drying option is
\* generated and exactly once when Solar Drying is unsuitable and
\* riskTolerance is not 'high'; Cold Storage's history is never appended to;
\* getRiskTrend and getDetailedRiskAnalysis, like every step but the
\* evaluation, leave every history as it is.
C27_ReadingsPerInvocation ==
    [][IF EvaluationStep THEN EvaluationAppends ELSE UNCHANGED riskHistory]_vars

\* two invocations on an over-capacity volume, one under 'high' and one not:
\* six readings, and getRiskTrend has been asked since
C27_Witness ==
    /\ pc = "Done" /\ calls = 2
    /\ Len(ReadingsHeld(SOLAR_DRYING)) = 6
    /\ ReadingsHeld(SOLAR_DRYING) = Copies(6)
    /\ riskHistory[COLD_STORAGE] = <<>>
    /\ lastOp.name = "getRiskTrend"

(***************************************************************************)
(* The balanced policy and the profit policy                               *)
(***************************************************************************)
\* what selectBestOption gives for the same options with prioritizeProfit set
UnderPrioritizeProfit ==
    selectBestOption(lastOp.options, [lastOp.parameters EXCEPT !.prioritizeProfit = TRUE])

\* the balanced policy was given two options
BalancedOverTwo == Balanced /\ Len(lastOp.options) = 2

\* C28: when exactly two options are evaluated and their net values differ,
\* the balanced policy of 'medium' recommends the one with the higher net
\* value whatever the numbers of risk factors, as prioritizeProfit does; the
\* two policies differ only when the net values are equal.
C28_BalancedFollowsProfit ==
    BalancedOverTwo =>
        /\ lastOp.options[1].netValue # lastOp.options[2].netValue =>
              /\ \A o \in Given : lastOp.result.netValue >= o.netValue
              /\ lastOp.result = UnderPrioritizeProfit
        /\ lastOp.result # UnderPrioritizeProfit =>
              lastOp.options[1].netValue = lastOp.options[2].netValue

\* the option with the slightly higher net value carries five risk factors,
\* the other none, and the balanced policy recommends the former
C28_Witness ==
    /\ BalancedOverTwo
    /\ lastOp.options[1].netValue = 90467 /\ Len(lastOp.options[1].riskFactors) = 0
    /\ lastOp.options[2].netValue = 97376 /\ Len(lastOp.options[2].riskFactors) = 5
    /\ lastOp.result = lastOp.options[2]

\* on equal net values the policies differ: the balanced one recommends
\* Solar Drying for its fewer risk factors
C28_DifferWitness ==
    /\ BalancedOverTwo
    /\ lastOp.result # UnderPrioritizeProfit
    /\ lastOp.result.method = SOLAR_DRYING

(***************************************************************************)
(* The mean number of risk factors                                         *)
(***************************************************************************)
\* the risk factors of all evaluated options together
RiskFactorsInAll ==
    SeqSum([i \in 1..Len(storageOptions) |-> Len(storageOptions[i].riskFactors)])

\* the mean number of risk factors over the evaluated options exceeds 3:
\* calculateConfidenceLevel multiplies the confidence by 0.8
ManyRiskFactors ==
    /\ Len(storageOptions) >= 2
    /\ RiskFactorsInAll > 3 * Len(storageOptions)

\* the number of risk factors of the option of a method, if it was evaluated
RiskFactorsOf(method) ==
    {Len(o.riskFactors) : o \in {o \in Range(storageOptions) : o.method = method}}

\* C29: with the default parameters and thresholds and riskTolerance 'low' or
\* 'medium' the mean number of risk factors over the evaluated options never
\* exceeds 3: an evaluated Solar Drying option has fewer than five and a Cold
\* Storage option at most two, so the confidence is never multiplied by 0.8.
C29_MeanRiskAtMostThree ==
    (Evaluated /\ parameters.riskTolerance \in {"low", "medium"}) =>
        /\ \A n \in RiskFactorsOf(SOLAR_DRYING) : n < 5
        /\ \A n \in RiskFactorsOf(COLD_STORAGE) : n <= 2
        /\ ~ManyRiskFactors

\* a verdict under 'medium' with both options evaluated: Solar Drying with
\* four risk factors, Cold Storage with two, a mean of exactly 3
C29_Witness ==
    /\ pc = "Done"
    /\ parameters.riskTolerance = "medium"
    /\ RiskFactorsOf(SOLAR_DRYING) = {4}
    /\ RiskFactorsOf(COLD_STORAGE) = {2}
    /\ ~ManyRiskFactors

\* under 'high' the mean exceeds 3 and the confidence is reduced
C29_HighWitness ==
    /\ pc = "Done"
    /\ parameters.riskTolerance = "high"
    /\ ManyRiskFactors
    /\ verdict.confidenceLevel
          = calculateConfidenceLevel(storageOptions, environmentalData, now)

(***************************************************************************)
(* The no-options failure                                                  *)
(***************************************************************************)
\* the invocation has ended after its validation, no evaluation having raised
EndedUnraised == pc \in {"Done", "Failed"} /\ thrown = {}

\* the invocation failed for want of options
NoOptionsFailure ==
    pc = "Failed" /\ failure = "No suitable storage options available"

\* the methods of the evaluated options, in order
EvaluatedMethods == [i \in 1..Len(storageOptions) |-> storageOptions[i].method]

\* C30: with the registry's parameters (capacities 1000 and 500,
\* availabilities 0.8 and 0.95) and valid inputs the no-options failure
\* occurs exactly when riskTolerance is not 'high' and cropVolume > 1000;
\* under 'high' both methods are always evaluated and the failure does not
\* occur.
C30_NoOptionsByVolume ==
    EndedUnraised =>
        /\ NoOptionsFailure
              = (parameters.riskTolerance # "high" /\ farmerInputs.cropVolume > 1000)
        /\ parameters.riskTolerance = "high" =>
              /\ EvaluatedMethods = <<COLD_STORAGE, SOLAR_DRYING>>
              /\ pc = "Done"

\* 1001 quintals under 'medium': both methods over capacity, the failure
C30_Witness ==
    /\ EndedUnraised
    /\ NoOptionsFailure
    /\ farmerInputs.cropVolume = 1001
    /\ parameters.riskTolerance = "medium"
    /\ Len(suitability) = 2

\* 2000 quintals under 'high': both methods evaluated, a verdict
C30_HighWitness ==
    /\ EndedUnraised
    /\ pc = "Done"
    /\ farmerInputs.cropVolume = 2000
    /\ parameters.riskTolerance = "high"
    /\ Len(storageOptions) = 2

\* 1000 quintals under 'low' in the worst weather: Cold Storage alone
C30_AtLimitWitness ==
    /\ EndedUnraised
    /\ pc = "Done"
    /\ farmerInputs.cropVolume = 1000
    /\ parameters.riskTolerance = "low"
    /\ EvaluatedMethods = <<COLD_STORAGE>>


====
